---- MODULE Spec2Model ----
(***************************************************************************)
(* A model of the ski-resort aggregator: the trails/lifts disambiguator    *)
(* and the scraping strategies of resorts/scraper.py, and the ranking      *)
(* pipeline of resorts/distance.py.                                        *)
(*                                                                         *)
(* Python floats are modelled by exact rationals (numerator, denominator). *)
(* The one place where IEEE-754 evaluation can change a result of the      *)
(* modelled code is round(open / total * 100) when the exact value is      *)
(* k + 1/2 (23/40*100 evaluates to 57.49999999999999): there the rounding  *)
(* direction is the variable fpTieUp, chosen freely per split.             *)
(***************************************************************************)
EXTENDS Integers, Sequences, FiniteSets, TLC

VARIABLES
    text,        \* parse_trails_lifts_text: the argument, a sequence of characters
    fpTieUp,     \* per pct_len: whether round() of an exact half goes up
    parsed,      \* parse_trails_lifts_text: the outcome, or NotCalled
    ppc,         \* "input" before the call, "done" after it
    rec,         \* _snow_quality_score: the argument, a Resort
    snow_score,  \* _snow_quality_score: the value returned, a rational
    spc,         \* "input" before the call, "done" after it
    resorts,     \* filter_resorts_by_distance: the argument resorts
    max_distance,\* filter_resorts_by_distance: the argument, in miles
    sort_by,     \* filter_resorts_by_distance: the argument sort_by
    priority,    \* filter_resorts_by_distance: the argument priority
    rpc,         \* filter_resorts_by_distance: where the call stands
    candidates,  \* the list candidates after the pre-filter
    response,    \* what requests.get gave the batched lookup
    driving_results, \* the list _fetch_driving_distances_batch returned
    results,     \* the list results
    osrm_stats,  \* the global _osrm_stats
    store,       \* the rows of the table of Resort
    upserts,     \* the calls of update_or_create so far, in order
    state_index, \* scrape_all_resorts: the place in the list of states
    scrape_pc,   \* scrape_state_resorts: where the call stands
    page,        \* the state page fetched
    row_index,   \* the place in the rows or links iterated over
    tried,       \* the selectors evaluated on the page, with what they found
    score_args,  \* _calculate_2d_score: the arguments of two calls
    combined_scores, \* _calculate_2d_score: the values the two calls returned
    cpc,         \* "input" before the calls, "done" after them
    stats_dict,  \* which dict the global name _osrm_stats is bound to
    stats_pc,    \* per concurrent call: where it stands
    stats_tmp,   \* per concurrent call: the dict and count loaded by calls += 1
    stats_seen,  \* per ranking call: the count it read when it finished
    writers,     \* two concurrent calls of update_or_create: slug and defaults
    writer_pc,   \* per concurrent call: where it stands
    writer_obj,  \* per concurrent call: the row its lookup found, or NoRow
    store_before, \* the rows of the table before the two calls
    settings_timeout, \* settings.RESORT_CACHE_TIMEOUT, or NULL when not set
    clock,       \* timezone.now(), in seconds
    last_scraped, \* get_or_refresh_resorts: the column last_scraped, by pk
    refresh_pc,  \* get_or_refresh_resorts: where the call stands
    refresh_calls, \* the calls of get_or_refresh_resorts made so far
    refresh_state, \* the place of its scrape in the list of states
    refresh_log, \* the rows and cutoff at the call, and its fetches and writes
    returned     \* the list the call returned

parseVars == <<text, fpTieUp, parsed, ppc>>
scoreVars == <<rec, snow_score, spc>>
rankVars == <<resorts, max_distance, sort_by, priority, rpc, candidates, response,
              driving_results, results, osrm_stats>>
scrapeVars == <<store, upserts, state_index, scrape_pc, page, row_index, tried>>
combineVars == <<score_args, combined_scores, cpc>>
statsVars == <<stats_dict, stats_pc, stats_tmp, stats_seen>>
writerVars == <<writers, writer_pc, writer_obj, store_before>>
refreshVars == <<settings_timeout, clock, last_scraped, refresh_pc, refresh_calls,
                refresh_state, refresh_log, returned>>

\* Python's None in an Optional[int] position (the scraper only produces
\* integers matched by \d+, which are never negative).
NULL == -1

-----------------------------------------------------------------------------
(* Characters and integers *)

Digits == {"0", "1", "2", "3", "4", "5", "6", "7", "8", "9"}

DigitValue(c) ==
    CASE c = "0" -> 0 [] c = "1" -> 1 [] c = "2" -> 2 [] c = "3" -> 3
      [] c = "4" -> 4 [] c = "5" -> 5 [] c = "6" -> 6 [] c = "7" -> 7
      [] c = "8" -> 8 [] c = "9" -> 9

\* int(s) for a non-empty string of digits
RECURSIVE ToInt(_)
ToInt(s) ==
    IF Len(s) = 1 THEN DigitValue(s[1])
    ELSE 10 * ToInt(SubSeq(s, 1, Len(s) - 1)) + DigitValue(s[Len(s)])

\* the length of the longest run of digits that starts at position from
RECURSIVE DigitRun(_, _)
DigitRun(s, from) ==
    IF from <= Len(s) /\ s[from] \in Digits THEN 1 + DigitRun(s, from + 1) ELSE 0

Abs(x) == IF x < 0 THEN -x ELSE x

Min(a, b) == IF a <= b THEN a ELSE b

\* Python's round() of the exact rational num/den (num >= 0, den > 0): half to
\* even; tieUp says where the double nearest to an exact half falls, when the
\* quotient num/den is not itself a double.
IsHalf(num, den) == 2 * (num % den) = den

PyRound(num, den, tieUp) ==
    LET q == num \div den
        r == num % den
    IN  IF 2 * r < den THEN q
        ELSE IF 2 * r > den THEN q + 1
        ELSE IF tieUp THEN q + 1 ELSE q

-----------------------------------------------------------------------------
(* parse_trails_lifts_text *)

\* re.match(r'^(\d+)/(\d+)', text): the two groups, or <<>> when no match
SimpleMatch(t) ==
    LET n1 == DigitRun(t, 1)
        n2 == DigitRun(t, n1 + 2)
    IN  IF n1 >= 1 /\ Len(t) >= n1 + 1 /\ t[n1 + 1] = "/" /\ n2 >= 1
        THEN <<SubSeq(t, 1, n1), SubSeq(t, n1 + 2, n1 + 1 + n2)>>
        ELSE <<>>

\* re.match(r'^(\d+)/(\d+)%', text)
PercentMatch(t) ==
    LET m == SimpleMatch(t)
    IN  IF m /= <<>> /\ Len(t) >= Len(m[1]) + Len(m[2]) + 2
                     /\ t[Len(m[1]) + Len(m[2]) + 2] = "%"
        THEN m
        ELSE <<>>

\* a loop that tries the short percentages first
PctLensAscending == <<1, 2, 3>>

\* for pct_len in [3, 2, 1]
PctLens == <<3, 2, 1>>

RealismPenalty(total_count) ==
    IF total_count > 1000 THEN 500
    ELSE IF total_count > 500 THEN 100
    ELSE 0

SplitTotal(combined, pct_len) == ToInt(SubSeq(combined, 1, Len(combined) - pct_len))

SplitPct(combined, pct_len) ==
    ToInt(SubSeq(combined, Len(combined) - pct_len + 1, Len(combined)))

\* the conditions under which the loop body appends a candidate
SplitValid(open_count, combined, pct_len) ==
    /\ Len(combined) > pct_len
    /\ SplitPct(combined, pct_len) >= 0
    /\ SplitPct(combined, pct_len) <= 100
    /\ SplitTotal(combined, pct_len) > 0
    /\ SplitTotal(combined, pct_len) >= open_count

SplitScore(open_count, combined, pct_len, tieUp) ==
    LET total_count == SplitTotal(combined, pct_len)
        calculated_pct == PyRound(open_count * 100, total_count, tieUp)
        diff == Abs(calculated_pct - SplitPct(combined, pct_len))
    IN  diff + RealismPenalty(total_count)

\* the list candidates after the loop over pct_len in [3, 2, 1]
RECURSIVE CandidatesFrom(_, _, _, _)
CandidatesFrom(open_count, combined, i, tie) ==
    IF i > Len(PctLens) THEN <<>>
    ELSE LET pct_len == PctLens[i]
             rest == CandidatesFrom(open_count, combined, i + 1, tie)
         IN  IF SplitValid(open_count, combined, pct_len)
             THEN <<[total_count |-> SplitTotal(combined, pct_len),
                     pct_len     |-> pct_len,
                     score       |-> SplitScore(open_count, combined, pct_len,
                                                tie[pct_len])]>> \o rest
             ELSE rest

\* list.sort(key=..., reverse=...): Python's sort is stable, also with
\* reverse=True. before[i][j] says that the key of s[i] sorts strictly before
\* the key of s[j]; SortPosition is the place of s[i] in the sorted list.
SortPosition(s, i, before) ==
    1 + Cardinality({j \in DOMAIN s :
                        \/ before[j][i]
                        \/ (~before[i][j] /\ j < i)})

StableSort(s, before) ==
    [p \in DOMAIN s |-> s[CHOOSE i \in DOMAIN s : SortPosition(s, i, before) = p]]

\* candidates.sort(key=lambda x: x[5])
ScoreBefore(c) == [i \in DOMAIN c |-> [j \in DOMAIN c |-> c[i].score < c[j].score]]

Pair(o, t) == [kind |-> "pair", open |-> o, total |-> t]
NonePair == [kind |-> "none", open |-> NULL, total |-> NULL]
Raised == [kind |-> "raise", open |-> NULL, total |-> NULL]
NotCalled == [kind |-> "notcalled", open |-> NULL, total |-> NULL]

\* a bare pattern that has to span the whole text
SimpleFallbackWholeText(t) ==
    LET m == SimpleMatch(t)
    IN  IF m /= <<>> /\ Len(t) = Len(m[1]) + Len(m[2]) + 1
        THEN Pair(ToInt(m[1]), ToInt(m[2])) ELSE NonePair

\* lines 441-446: the bare open/total pattern
SimpleFallback(t) ==
    LET m == SimpleMatch(t)
    IN  IF m /= <<>> THEN Pair(ToInt(m[1]), ToInt(m[2])) ELSE NonePair

\* lines 435-439, reached with no candidate: int('') raises ValueError
HundredCase(t, open_count, combined) ==
    IF Len(combined) >= 3 /\ SubSeq(combined, Len(combined) - 2, Len(combined)) = <<"1", "0", "0">>
    THEN IF Len(combined) = 3 THEN Raised
         ELSE IF open_count = SplitTotal(combined, 3) THEN Pair(open_count, open_count)
         ELSE SimpleFallback(t)
    ELSE SimpleFallback(t)

parse_trails_lifts_text(t, tie) ==
    IF t = <<>> \/ t = <<"-">> THEN NonePair
    ELSE LET m == PercentMatch(t)
         IN  IF m /= <<>>
             THEN LET open_count == ToInt(m[1])
                      combined == m[2]
                      split_candidates == CandidatesFrom(open_count, combined, 1, tie)
                  IN  IF split_candidates /= <<>>
                      THEN Pair(open_count,
                                StableSort(split_candidates, ScoreBefore(split_candidates))[1].total_count)
                      ELSE HundredCase(t, open_count, combined)
             ELSE SimpleFallback(t)

-----------------------------------------------------------------------------
(* The disambiguator called on one text *)

MaxOpenLen == 2
MaxCombinedLen == 5

\* the examples of the docstring
Doc1 == <<"9", "/", "1", "4", "7", "6", "%", " ", "O", "p", "e", "n">>
Doc2 == <<"4", "5", "/", "1", "6", "5", "1", "6", "%", " ", "O", "p", "e", "n">>
Doc3 == <<"1", "4", "4", "/", "1", "4", "4", "1", "0", "0", "%", " ", "O", "p", "e", "n">>
Doc4 == <<"5", "/", "9", "-">>

\* the texts open/combined with and without a suffix, over three digits, the
\* examples of the docstring, and texts that match neither pattern
ParseTexts ==
    LET digit_strings(n) == UNION {[1 .. k -> {"0", "1", "5"}] : k \in 1 .. n}
    IN  {o \o <<"/">> \o c \o s : o \in digit_strings(MaxOpenLen),
                                 c \in digit_strings(MaxCombinedLen),
                                 s \in {<<"%">>, <<"-">>, <<>>}}
            \cup {Doc1, Doc2, Doc3, Doc4}
            \cup {<<>>, <<"-">>, <<"O", "p", "e", "n">>, <<"5", "/">>, <<"/", "5", "%">>,
                  <<"3", "0", "/", "1", "7", "1">>}

\* whether round() in the split pct_len of text t is taken of an exact half
HalfSplit(t, pct_len) ==
    LET m == PercentMatch(t)
    IN  /\ m /= <<>>
        /\ SplitValid(ToInt(m[1]), m[2], pct_len)
        /\ IsHalf(ToInt(m[1]) * 100, SplitTotal(m[2], pct_len))

TieChoices(t) ==
    {f \in [{1, 2, 3} -> BOOLEAN] : \A k \in {1, 2, 3} : f[k] => HalfSplit(t, k)}

ParseInit ==
    /\ text \in ParseTexts
    /\ fpTieUp \in TieChoices(text)
    /\ parsed = NotCalled
    /\ ppc = "input"

ParseIdle ==
    /\ text = <<>>
    /\ fpTieUp = [k \in {1, 2, 3} |-> FALSE]
    /\ parsed = NotCalled
    /\ ppc = "idle"

ParseCall ==
    /\ ppc = "input"
    /\ parsed' = parse_trails_lifts_text(text, fpTieUp)
    /\ ppc' = "done"
    /\ UNCHANGED <<text, fpTieUp, scoreVars, rankVars, scrapeVars, combineVars, statsVars, writerVars, refreshVars>>

-----------------------------------------------------------------------------
(* Rationals: a Python float value as numerator n over denominator d > 0 *)

Rat(n, d) == [n |-> n, d |-> d]

RatAdd(a, b) == Rat(a.n * b.d + b.n * a.d, a.d * b.d)

RatLess(a, b) == a.n * b.d < b.n * a.d

RatLeq(a, b) == a.n * b.d <= b.n * a.d

RatEq(a, b) == a.n * b.d = b.n * a.d

\* min(a, b)
RatMin(a, b) == IF RatLeq(a, b) THEN a ELSE b

-----------------------------------------------------------------------------
(* _snow_quality_score *)

\* Python truthiness of an Optional[int]: None and 0 are false
Truthy(x) == x /= NULL /\ x /= 0

\* base depth points without the cap
BaseDepthUncapped(resort) ==
    IF Truthy(resort.base_depth) THEN Rat(resort.base_depth, 2) ELSE Rat(0, 1)

\* lines 273-276: up to 30 points
BaseDepthPoints(resort) ==
    IF Truthy(resort.base_depth) THEN RatMin(Rat(resort.base_depth, 2), Rat(30, 1))
    ELSE Rat(0, 1)

\* lines 278-281: new_snow_24h * 2.5, up to 35 points
NewSnowPoints(resort) ==
    IF Truthy(resort.new_snow_24h) THEN RatMin(Rat(resort.new_snow_24h * 5, 2), Rat(35, 1))
    ELSE Rat(0, 1)

\* lines 283-286
TrailsPoints(resort) ==
    IF Truthy(resort.trails_total) /\ Truthy(resort.trails_open)
    THEN Rat(resort.trails_open * 20, resort.trails_total)
    ELSE Rat(0, 1)

\* lines 288-291
LiftsPoints(resort) ==
    IF Truthy(resort.lifts_total) /\ Truthy(resort.lifts_open)
    THEN Rat(resort.lifts_open * 15, resort.lifts_total)
    ELSE Rat(0, 1)

\* a score that forgets the is_open test of lines 268-269
SnowQualityIgnoringClosed(resort) ==
    RatAdd(RatAdd(RatAdd(BaseDepthPoints(resort), NewSnowPoints(resort)),
                  TrailsPoints(resort)),
           LiftsPoints(resort))

snow_quality_score(resort) ==
    IF ~resort.is_open THEN Rat(0, 1)
    ELSE RatAdd(RatAdd(RatAdd(BaseDepthPoints(resort), NewSnowPoints(resort)),
                       TrailsPoints(resort)),
                LiftsPoints(resort))

-----------------------------------------------------------------------------
(* _snow_quality_score called on one record *)

Resort(id, lat, lng, is_open, base, new, to, tt, lo, lt) ==
    [id |-> id, latitude |-> lat, longitude |-> lng, is_open |-> is_open,
     base_depth |-> base, new_snow_24h |-> new,
     trails_open |-> to, trails_total |-> tt, lifts_open |-> lo, lifts_total |-> lt]

\* the depths in inches around the caps (60+ inches of base, 14+ of new snow)
MaxBase == 61
MaxNewSnow == 15
MaxCount == 2

\* records with depths around the caps and every pair of counts up to
\* MaxCount, the pairs with open > total included (the scraper stores them)
ScoreRecords ==
    LET base_depths == {NULL, 0, 20, MaxBase - 1, MaxBase}
        new_snows == {NULL, 0, 2, MaxNewSnow - 1, MaxNewSnow}
        counts == {<<NULL, NULL>>} \cup ((0 .. MaxCount) \X (0 .. MaxCount))
    IN  {Resort(1, NULL, NULL, o, b, n, t[1], t[2], l[1], l[2]) :
            o \in BOOLEAN, b \in base_depths, n \in new_snows, t \in counts, l \in counts}

NoResort == Resort(0, NULL, NULL, FALSE, NULL, NULL, NULL, NULL, NULL, NULL)

ScoreInit ==
    /\ rec \in ScoreRecords
    /\ snow_score = Rat(0, 1)
    /\ spc = "input"

ScoreIdle ==
    /\ rec = NoResort
    /\ snow_score = Rat(0, 1)
    /\ spc = "idle"

ScoreCall ==
    /\ spc = "input"
    /\ snow_score' = snow_quality_score(rec)
    /\ spc' = "done"
    /\ UNCHANGED <<rec, parseVars, rankVars, scrapeVars, combineVars, statsVars, writerVars, refreshVars>>

-----------------------------------------------------------------------------
(* Products of small naturals, for comparing powers of rationals exactly *)

\* a natural number as its digits in base BigBase, least significant first,
\* without leading zeros (zero is <<>>)
BigBase == 1000

RECURSIVE BigDigits(_)
BigDigits(n) == IF n = 0 THEN <<>> ELSE <<n % BigBase>> \o BigDigits(n \div BigBase)

\* b * m + carry, for 0 <= m, carry < 2000000
RECURSIVE BigMulSmall(_, _, _)
BigMulSmall(b, m, carry) ==
    IF b = <<>> THEN BigDigits(carry)
    ELSE LET v == b[1] * m + carry
         IN  <<v % BigBase>> \o BigMulSmall(Tail(b), m, v \div BigBase)

\* the product of factors that are all positive
RECURSIVE BigProduct(_)
BigProduct(factors) ==
    IF factors = <<>> THEN <<1>>
    ELSE BigMulSmall(BigProduct(Tail(factors)), Head(factors), 0)

RECURSIVE BigLessFrom(_, _, _)
BigLessFrom(a, b, i) ==
    IF i = 0 THEN FALSE
    ELSE IF a[i] /= b[i] THEN a[i] < b[i]
    ELSE BigLessFrom(a, b, i - 1)

BigLess(a, b) ==
    IF Len(a) /= Len(b) THEN Len(a) < Len(b) ELSE BigLessFrom(a, b, Len(a))

-----------------------------------------------------------------------------
(* _calculate_2d_score *)

\* eps = 0.01
EpsPerHundred == 1

\* the weights 0.6 and 0.4, in fifths
HighWeight == 3
LowWeight == 2

\* x + eps
PlusEps(x) == Rat(100 * x.n + EpsPerHundred * x.d, 100 * x.d)

RECURSIVE Repeat(_, _)
Repeat(x, k) == IF k = 0 THEN <<>> ELSE <<x>> \o Repeat(x, k - 1)

\* (q ** quality_weight) * (d ** distance_weight), kept as its fifth power:
\* the factors of the numerator and of the denominator
WeightedScore(d, q, distance_weight, quality_weight) ==
    [num |-> Repeat(q.n, quality_weight) \o Repeat(d.n, distance_weight),
     den |-> Repeat(q.d, quality_weight) \o Repeat(d.d, distance_weight)]

\* a weighting that gives the priority dimension the lower weight
calculate_2d_score_swapped(distance_score, quality_score, prio) ==
    IF prio = "distance"
    THEN WeightedScore(PlusEps(distance_score), PlusEps(quality_score), LowWeight, HighWeight)
    ELSE WeightedScore(PlusEps(distance_score), PlusEps(quality_score), HighWeight, LowWeight)

\* a score that divides by the distance term instead of multiplying by it
calculate_2d_score_dividing(distance_score, quality_score, prio) ==
    LET d == Rat(PlusEps(distance_score).d, PlusEps(distance_score).n)
    IN  IF prio = "distance"
        THEN WeightedScore(d, PlusEps(quality_score), HighWeight, LowWeight)
        ELSE WeightedScore(d, PlusEps(quality_score), LowWeight, HighWeight)

calculate_2d_score(distance_score, quality_score, prio) ==
    IF prio = "distance"
    THEN WeightedScore(PlusEps(distance_score), PlusEps(quality_score), HighWeight, LowWeight)
    ELSE WeightedScore(PlusEps(distance_score), PlusEps(quality_score), LowWeight, HighWeight)

\* x < y for two scores (both positive: x^5 < y^5)
CombinedLess(x, y) ==
    BigLess(BigProduct(x.num \o y.den), BigProduct(y.num \o x.den))

-----------------------------------------------------------------------------
(* haversine_distance and the unit conversions *)

\* The user's location, in degrees.
UserLat == 1
UserLng == 1

\* haversine_distance from (UserLat, UserLng), always the first point, to the
\* points of the grid of whole degrees 0..3 x 0..3, R = 3959, in tenths of a
\* mile: table[lat2 + 1][lon2 + 1]
haversine_distance(lat1, lon1, lat2, lon2) ==
    LET table == << <<977, 691, 977, 1545>>,
                    <<691, 0, 691, 1382>>,
                    <<977, 691, 977, 1545>>,
                    <<1545, 1382, 1545, 1954>> >>
    IN  table[lat2 + 1][lon2 + 1]

\* round(meters / 1609.344, 1), in tenths of a mile (10 / 1609.344 = 625 / 100584)
MilesTenths(meters) == PyRound(meters * 625, 100584, FALSE)

\* round(seconds / 3600, 2), in hundredths of an hour
HoursHundredths(seconds) == PyRound(seconds, 36, FALSE)

-----------------------------------------------------------------------------
(* _fetch_driving_distances_batch *)

\* a JSON value at a place where a number is expected
JNull == [t |-> "null", v |-> 0]
JStr == [t |-> "str", v |-> 0]
JNum(x) == [t |-> "num", v |-> x]

\* data['distances'] / data['durations']: the key absent, null, [] or a
\* list whose first row is row
Matrix(shape, row) == [shape |-> shape, row |-> row]
MatrixAbsent == Matrix("absent", <<>>)

\* what requests.get, raise_for_status and response.json() give
Response(status, shape, code, distances, durations) ==
    [status |-> status, shape |-> shape, code |-> code,
     distances |-> distances, durations |-> durations]

NoResponse == Response("none", "object", "absent", MatrixAbsent, MatrixAbsent)

\* the outcomes of the call
Unavailable == [resolved |-> FALSE, distance_miles |-> 0, duration_hours |-> NULL]

DrivingInfo(miles, hours) ==
    [resolved |-> TRUE, distance_miles |-> miles, duration_hours |-> hours]

Returned(list) == [raised |-> FALSE, list |-> list]
RaisedError == [raised |-> TRUE, list |-> <<>>]

\* a tuple (resort, driving_info)
Driving(resort, info) == [resort |-> resort, info |-> info]

\* [(resort, None) for resort in candidates]
AllUnavailable(cands) == Returned([i \in DOMAIN cands |-> Driving(cands[i], Unavailable)])

\* data.get(key, [[]])[0]: "TypeError" for null, "IndexError" for []
FirstRow(matrix) ==
    CASE matrix.shape = "absent" -> [err |-> "none", row |-> <<>>]
      [] matrix.shape = "null" -> [err |-> "TypeError", row |-> <<>>]
      [] matrix.shape = "empty" -> [err |-> "IndexError", row |-> <<>>]
      [] matrix.shape = "rows" -> [err |-> "none", row |-> matrix.row]

\* lines 110-121 for the candidate at (1-based) place i: the entry of the
\* destination is row[i + 1], row[1] being the origin
EntryOutcome(distances, durations, i) ==
    IF i + 1 <= Len(distances) /\ distances[i + 1].t /= "null"
    THEN IF distances[i + 1].t = "str" THEN [err |-> "TypeError", info |-> Unavailable]
         ELSE IF i + 1 > Len(durations) THEN [err |-> "IndexError", info |-> Unavailable]
         ELSE IF durations[i + 1].t = "str" THEN [err |-> "TypeError", info |-> Unavailable]
         ELSE [err |-> "none",
               info |-> DrivingInfo(MilesTenths(distances[i + 1].v),
                                    IF durations[i + 1].t = "num" /\ durations[i + 1].v /= 0
                                    THEN HoursHundredths(durations[i + 1].v)
                                    ELSE NULL)]
    ELSE [err |-> "none", info |-> Unavailable]

\* the loop of lines 108-121 from candidate i on: the first error ends it
RECURSIVE BatchLoop(_, _, _, _, _)
BatchLoop(cands, distances, durations, i, acc) ==
    IF i > Len(cands) THEN Returned(acc)
    ELSE LET o == EntryOutcome(distances, durations, i)
         IN  CASE o.err = "TypeError" -> RaisedError
               [] o.err = "IndexError" -> AllUnavailable(cands)
               [] o.err = "none" ->
                    BatchLoop(cands, distances, durations, i + 1,
                              Append(acc, Driving(cands[i], o.info)))

fetch_driving_distances_batch(cands, resp) ==
    IF resp.status /= "json" THEN AllUnavailable(cands)
    ELSE IF resp.shape /= "object" THEN RaisedError
    ELSE IF resp.code /= "Ok" THEN AllUnavailable(cands)
    ELSE LET dist == FirstRow(resp.distances)
             dur == FirstRow(resp.durations)
         IN  IF dist.err = "TypeError" THEN RaisedError
             ELSE IF dist.err = "IndexError" THEN AllUnavailable(cands)
             ELSE IF dur.err = "TypeError" THEN RaisedError
             ELSE IF dur.err = "IndexError" THEN AllUnavailable(cands)
             ELSE BatchLoop(cands, dist.row, dur.row, 1, <<>>)

-----------------------------------------------------------------------------
(* filter_resorts_by_distance *)

\* a pre-filter that only looks for coordinates
PassesPrefilterAnyDistance(resort, user_lat, user_lng, max_dist) ==
    Truthy(resort.latitude) /\ Truthy(resort.longitude)

\* lines 167-178: the pre-filter; max_dist in miles, distances in tenths
PassesPrefilter(resort, user_lat, user_lng, max_dist) ==
    /\ Truthy(resort.latitude)
    /\ Truthy(resort.longitude)
    /\ 2 * haversine_distance(user_lat, user_lng, resort.latitude, resort.longitude)
          <= max_dist * 30

Prefilter(rs, user_lat, user_lng, max_dist) ==
    LET Keep(r) == PassesPrefilter(r, user_lat, user_lng, max_dist)
    IN  SelectSeq(rs, Keep)

ResultEntry(resort, distance, driving_hours) ==
    [resort |-> resort, distance |-> distance, driving_hours |-> driving_hours,
     snow_quality |-> snow_quality_score(resort),
     distance_score |-> Rat(0, 1), quality_score |-> Rat(0, 1),
     combined_score |-> [num |-> <<>>, den |-> <<>>]]

\* a rule that keeps every resolved candidate, whatever its driving distance
ResolveOneKeepingResolved(resort, info, user_lat, user_lng, max_dist) ==
    IF info.resolved
    THEN <<ResultEntry(resort, info.distance_miles, info.duration_hours)>>
    ELSE IF haversine_distance(user_lat, user_lng, resort.latitude, resort.longitude)
               <= max_dist * 10
         THEN <<ResultEntry(resort,
                            haversine_distance(user_lat, user_lng,
                                               resort.latitude, resort.longitude),
                            NULL)>>
         ELSE <<>>

\* lines 193-219 for one (resort, driving_info): the entries appended
ResolveOne(resort, info, user_lat, user_lng, max_dist) ==
    IF info.resolved
    THEN IF info.distance_miles <= max_dist * 10
         THEN <<ResultEntry(resort, info.distance_miles, info.duration_hours)>>
         ELSE <<>>
    ELSE IF haversine_distance(user_lat, user_lng, resort.latitude, resort.longitude)
               <= max_dist * 10
         THEN <<ResultEntry(resort,
                            haversine_distance(user_lat, user_lng,
                                               resort.latitude, resort.longitude),
                            NULL)>>
         ELSE <<>>

\* the loop of lines 192-219 from place i of driving_results on
RECURSIVE Resolve(_, _, _, _, _)
Resolve(driving, i, user_lat, user_lng, max_dist) ==
    IF i > Len(driving) THEN <<>>
    ELSE ResolveOne(driving[i].resort, driving[i].info, user_lat, user_lng, max_dist)
            \o Resolve(driving, i + 1, user_lat, user_lng, max_dist)

RECURSIVE MaxDistanceOf(_)
MaxDistanceOf(rs) ==
    IF Len(rs) = 1 THEN rs[1].distance
    ELSE LET m == MaxDistanceOf(Tail(rs))
         IN  IF rs[1].distance > m THEN rs[1].distance ELSE m

\* lines 231-243; max(...) or 1: one mile is ten tenths
Scored(rs, prio) ==
    LET m == MaxDistanceOf(rs)
        max_dist == IF m = 0 THEN 10 ELSE m
    IN  [i \in DOMAIN rs |->
            LET distance_score == Rat(max_dist - rs[i].distance, max_dist)
                quality_score == Rat(rs[i].snow_quality.n, rs[i].snow_quality.d * 100)
            IN  [rs[i] EXCEPT !.distance_score = distance_score,
                              !.quality_score = quality_score,
                              !.combined_score =
                                  calculate_2d_score(distance_score, quality_score, prio)]]

\* the keys of lines 246-251 as "sorts strictly before"
DistanceBefore(rs) ==
    [i \in DOMAIN rs |-> [j \in DOMAIN rs |-> rs[i].distance < rs[j].distance]]

ConditionsBefore(rs) ==
    [i \in DOMAIN rs |-> [j \in DOMAIN rs |->
        RatLess(rs[j].snow_quality, rs[i].snow_quality)]]

CombinedBefore(rs) ==
    [i \in DOMAIN rs |-> [j \in DOMAIN rs |->
        CombinedLess(rs[j].combined_score, rs[i].combined_score)]]

\* a descending sort done as an ascending sort followed by a reversal
Reversed(s) == [i \in DOMAIN s |-> s[Len(s) + 1 - i]]

SortedReversing(rs, sort) ==
    IF sort = "distance" THEN StableSort(rs, DistanceBefore(rs))
    ELSE IF sort = "conditions"
         THEN Reversed(StableSort(rs, [i \in DOMAIN rs |-> [j \in DOMAIN rs |->
                                         ConditionsBefore(rs)[j][i]]]))
    ELSE Reversed(StableSort(rs, [i \in DOMAIN rs |-> [j \in DOMAIN rs |->
                                         CombinedBefore(rs)[j][i]]]))

Sorted(rs, sort) ==
    IF sort = "distance" THEN StableSort(rs, DistanceBefore(rs))
    ELSE IF sort = "conditions" THEN StableSort(rs, ConditionsBefore(rs))
    ELSE StableSort(rs, CombinedBefore(rs))

-----------------------------------------------------------------------------
(* One ranking request *)

MaxResorts == 3

\* The stored records the request ranks.
\*  1: at the user's location, everything open, full score
\*  2, 3: 69.1 miles away; 3 is closed
\*  4: 97.7 miles away; lifts scraped as "9/5-"
\*  5: 138.2 miles away: within 1.5 times 100 miles, beyond 100 miles
\*  6: 195.4 miles away
\*  7: no coordinates   8: latitude 0
ResortPool ==
    { Resort(1, 1, 1, TRUE, 60, 14, 10, 10, 5, 5),
      Resort(2, 1, 2, TRUE, 20, 2, 5, 10, NULL, NULL),
      Resort(3, 2, 1, FALSE, 40, 5, 0, 10, NULL, NULL),
      Resort(4, 2, 2, TRUE, 80, 20, 10, 10, 9, 5),
      Resort(5, 1, 3, TRUE, 20, 2, 5, 10, NULL, NULL),
      Resort(6, 3, 3, TRUE, 60, 14, 10, 10, 5, 5),
      Resort(7, NULL, NULL, TRUE, 60, 14, 10, 10, 5, 5),
      Resort(8, 0, 1, TRUE, 20, 0, 5, 10, 5, 5) }

\* Resort.objects.all(): lists of distinct records
ResortLists ==
    UNION {{s \in [1 .. k -> ResortPool] : \A i, j \in 1 .. k : i /= j => s[i] /= s[j]} :
              k \in 0 .. MaxResorts}

MaxDistances == {0, 100}
SortBys == {"distance", "conditions", "optimized", "rating"}
Priorities == {"snow", "distance"}

\* what the request for n destinations can give: a failure of the transport,
\* a body that is no object, a code other than Ok, matrices absent, null,
\* empty, short or with entries that are no numbers, and every row of
\* distances of 120 or 170 km or null (a row holds the origin's own entry,
\* then one entry per destination)
Responses(n) ==
    LET full_row(entry) == <<JNum(0)>> \o [i \in 1 .. n |-> entry]
        rows == {<<JNum(0)>> \o row : row \in [1 .. n -> {JNull, JNum(120000), JNum(170000)}]}
        okDur == Matrix("rows", full_row(JNum(5400)))
        okDist == Matrix("rows", full_row(JNum(120000)))
    IN  {Response(t, "object", "absent", MatrixAbsent, MatrixAbsent) :
            t \in {"connection_error", "timeout", "http_error", "not_json"}}
        \cup {Response("json", "array", "absent", MatrixAbsent, MatrixAbsent),
              Response("json", "object", "NoRoute", MatrixAbsent, MatrixAbsent),
              Response("json", "object", "absent", okDist, okDur)}
        \cup {Response("json", "object", "Ok", d, okDur) :
                 d \in {MatrixAbsent, Matrix("null", <<>>), Matrix("empty", <<>>),
                        Matrix("rows", <<JNum(0)>>),
                        Matrix("rows", full_row(JNum(0))),
                        Matrix("rows", full_row(JStr))}}
        \cup {Response("json", "object", "Ok", okDist, d) :
                 d \in {MatrixAbsent, Matrix("null", <<>>), Matrix("empty", <<>>),
                        Matrix("rows", <<JNum(0)>>),
                        Matrix("rows", full_row(JStr)),
                        Matrix("rows", full_row(JNull)),
                        Matrix("rows", full_row(JNum(0)))}}
        \cup {Response("json", "object", "Ok", Matrix("rows", row), okDur) : row \in rows}

NoStats == [calls |-> 0]

RankInit ==
    /\ resorts \in ResortLists
    /\ max_distance \in MaxDistances
    /\ sort_by = "optimized"
    /\ priority = "snow"
    /\ rpc = "start"
    /\ candidates = <<>>
    /\ response = NoResponse
    /\ driving_results = <<>>
    /\ results = <<>>
    /\ osrm_stats = NoStats

RankIdle ==
    /\ resorts = <<>>
    /\ max_distance = 0
    /\ sort_by = "optimized"
    /\ priority = "snow"
    /\ rpc = "idle"
    /\ candidates = <<>>
    /\ response = NoResponse
    /\ driving_results = <<>>
    /\ results = <<>>
    /\ osrm_stats = NoStats

\* lines 160-181: reset the statistics, pre-filter, return [] without candidates
RankPrefilter ==
    /\ rpc = "start"
    /\ osrm_stats' = [calls |-> 0]
    /\ candidates' = Prefilter(resorts, UserLat, UserLng, max_distance)
    /\ rpc' = IF candidates' = <<>> THEN "done" ELSE "fetch"
    /\ UNCHANGED <<resorts, max_distance, sort_by, priority, response,
                   driving_results, results, parseVars, scoreVars, scrapeVars,
                   combineVars, statsVars, writerVars, refreshVars>>

\* one request for each destination
RequestsPerCandidate(cands) == Len(cands)

\* lines 68-89: the requests of one lookup, a single one whose url holds the
\* coordinates of all candidates
RequestsFor(cands) == 1

\* line 190: the batched lookup, its request answered by resp
RankFetch ==
    /\ rpc = "fetch"
    /\ \E resp \in Responses(Len(candidates)) :
          LET out == fetch_driving_distances_batch(candidates, resp)
          IN  /\ response' = resp
              /\ osrm_stats' = [osrm_stats EXCEPT !.calls = @ + RequestsFor(candidates)]
              /\ driving_results' = out.list
              /\ rpc' = IF out.raised THEN "raised" ELSE "resolve"
    /\ UNCHANGED <<resorts, max_distance, sort_by, priority, candidates, results,
                   parseVars, scoreVars, scrapeVars,
                   combineVars, statsVars, writerVars, refreshVars>>

\* lines 192-253: resolve, score, sort, return. The arguments sort_by and
\* priority are read here for the first time (lines 242 and 246) and hold
\* their defaults until they are drawn.
RankFinish ==
    /\ rpc = "resolve"
    /\ \E s \in SortBys, p \in Priorities :
          LET kept == Resolve(driving_results, 1, UserLat, UserLng, max_distance)
          IN  /\ sort_by' = s
              /\ priority' = p
              /\ results' = IF kept = <<>> THEN <<>> ELSE Sorted(Scored(kept, p), s)
    /\ rpc' = "done"
    /\ UNCHANGED <<resorts, max_distance, candidates, response,
                   driving_results, osrm_stats, parseVars, scoreVars, scrapeVars,
                   combineVars, statsVars, writerVars, refreshVars>>

RankNext == RankPrefilter \/ RankFetch \/ RankFinish

-----------------------------------------------------------------------------
(* _calculate_2d_score as a function of its arguments *)

\* scores are drawn from the grid 0, 1/MaxScoreSteps, ..., 1
MaxScoreSteps == 4

ScoreArgs(distance_score, quality_score, prio) ==
    [distance_score |-> distance_score, quality_score |-> quality_score,
     priority |-> prio]

CombineInit ==
    /\ LET grid == {Rat(k, MaxScoreSteps) : k \in 0 .. MaxScoreSteps}
       IN  score_args \in [1 .. 2 -> {ScoreArgs(d, q, p) :
                                         d \in grid, q \in grid,
                                         p \in Priorities \cup {"rating"}}]
    /\ combined_scores = <<>>
    /\ cpc = "input"

CombineIdle ==
    /\ score_args = <<>>
    /\ combined_scores = <<>>
    /\ cpc = "idle"

CombineCall ==
    /\ cpc = "input"
    /\ combined_scores' = [i \in 1 .. 2 |->
                       calculate_2d_score(score_args[i].distance_score,
                                          score_args[i].quality_score,
                                          score_args[i].priority)]
    /\ cpc' = "done"
    /\ UNCHANGED <<score_args, parseVars, scoreVars, rankVars, scrapeVars, statsVars, writerVars, refreshVars>>

-----------------------------------------------------------------------------
(* The global _osrm_stats under concurrent calls *)

\* the threads: two calls of filter_resorts_by_distance and one call of
\* get_driving_route
Rankings == {"first", "second"}
RouteLookup == "route"
Threads == Rankings \cup {RouteLookup}

NoLoad == [dict |-> 0, calls |-> 0]

StatsInit ==
    /\ stats_dict = 0
    /\ stats_pc = [t \in Threads |-> "start"]
    /\ stats_tmp = [t \in Threads |-> NoLoad]
    /\ stats_seen = [t \in Rankings |-> NULL]

StatsIdle ==
    /\ stats_dict = 0
    /\ stats_pc = <<>>
    /\ stats_tmp = <<>>
    /\ stats_seen = <<>>

\* what the statistics actions leave alone
statsFrame == <<resorts, max_distance, sort_by, priority, rpc, candidates, response,
                driving_results, results, parseVars, scoreVars, scrapeVars, combineVars,
                writerVars, refreshVars>>

\* line 161: the global name is bound to a new dict with calls 0
StatsReset(t) ==
    /\ t \in Rankings
    /\ stats_pc[t] = "start"
    /\ stats_dict' = stats_dict + 1
    /\ osrm_stats' = [calls |-> 0]
    /\ stats_pc' = [stats_pc EXCEPT ![t] = "prefilter"]
    /\ UNCHANGED <<stats_tmp, stats_seen, statsFrame>>

\* lines 165-190: without candidates the call returns at line 181, with
\* candidates it goes on to the batched lookup
StatsPrefilter(t) ==
    /\ t \in Rankings
    /\ stats_pc[t] = "prefilter"
    /\ \E some_candidate \in BOOLEAN :
          stats_pc' = [stats_pc EXCEPT ![t] = IF some_candidate THEN "load" ELSE "done"]
    /\ UNCHANGED <<osrm_stats, stats_dict, stats_tmp, stats_seen, statsFrame>>

\* lines 84 and 387, first half of calls += 1: the dict the global name is
\* bound to and its count are loaded
StatsLoad(t) ==
    /\ stats_pc[t] = IF t \in Rankings THEN "load" ELSE "start"
    /\ stats_tmp' = [stats_tmp EXCEPT ![t] = [dict |-> stats_dict, calls |-> osrm_stats.calls]]
    /\ stats_pc' = [stats_pc EXCEPT ![t] = "store"]
    /\ UNCHANGED <<osrm_stats, stats_dict, stats_seen, statsFrame>>

\* lines 84 and 387, second half of calls += 1: the sum is stored in the dict
\* that was loaded, which is no longer the global one after a reset
StatsStore(t) ==
    /\ stats_pc[t] = "store"
    /\ osrm_stats' = IF stats_tmp[t].dict = stats_dict
                     THEN [calls |-> stats_tmp[t].calls + 1]
                     ELSE osrm_stats
    /\ stats_pc' = [stats_pc EXCEPT ![t] = IF t \in Rankings THEN "read" ELSE "done"]
    /\ UNCHANGED <<stats_dict, stats_tmp, stats_seen, statsFrame>>

\* lines 221-223: the count of the global dict is read for the log line
StatsRead(t) ==
    /\ t \in Rankings
    /\ stats_pc[t] = "read"
    /\ stats_seen' = [stats_seen EXCEPT ![t] = osrm_stats.calls]
    /\ stats_pc' = [stats_pc EXCEPT ![t] = "done"]
    /\ UNCHANGED <<osrm_stats, stats_dict, stats_tmp, statsFrame>>

StatsNext ==
    \E t \in Threads :
       StatsReset(t) \/ StatsPrefilter(t) \/ StatsLoad(t) \/ StatsStore(t) \/ StatsRead(t)

-----------------------------------------------------------------------------
(* Texts of the scraped pages: names, slugs, cells (resorts/scraper.py) *)

UpperCase == <<"A", "B", "C", "D", "E", "F", "G", "H", "I", "J", "K", "L", "M",
               "N", "O", "P", "Q", "R", "S", "T", "U", "V", "W", "X", "Y", "Z">>
LowerCase == <<"a", "b", "c", "d", "e", "f", "g", "h", "i", "j", "k", "l", "m",
               "n", "o", "p", "q", "r", "s", "t", "u", "v", "w", "x", "y", "z">>

\* str.lower() of one character
Lower(c) ==
    IF \E i \in DOMAIN UpperCase : UpperCase[i] = c
    THEN LowerCase[CHOOSE i \in DOMAIN UpperCase : UpperCase[i] = c]
    ELSE c

LowerAll(s) == [i \in DOMAIN s |-> Lower(s[i])]

\* the class [a-z0-9]
IsSlugChar(c) == c \in Digits \/ \E i \in DOMAIN LowerCase : LowerCase[i] = c

\* s without its leading characters outside [a-z0-9]
RECURSIVE SkipRun(_)
SkipRun(s) == IF s = <<>> \/ IsSlugChar(s[1]) THEN s ELSE SkipRun(Tail(s))

\* re.sub(r'[^a-z0-9]+', '-', s)
RECURSIVE Dashed(_)
Dashed(s) ==
    IF s = <<>> THEN <<>>
    ELSE IF IsSlugChar(s[1]) THEN <<s[1]>> \o Dashed(Tail(s))
    ELSE <<"-">> \o Dashed(SkipRun(s))

\* str.strip(c)
RECURSIVE LStrip(_, _)
LStrip(s, c) == IF s /= <<>> /\ s[1] = c THEN LStrip(Tail(s), c) ELSE s

RECURSIVE RStrip(_, _)
RStrip(s, c) ==
    IF s /= <<>> /\ s[Len(s)] = c THEN RStrip(SubSeq(s, 1, Len(s) - 1), c) ELSE s

Strip(s, c) == RStrip(LStrip(s, c), c)

\* slug = re.sub(r'[^a-z0-9]+', '-', name.lower()).strip('-')
Slugify(name) == Strip(Dashed(LowerAll(name)), "-")

\* whether the word w stands in s at position i, letter case ignored
StartsWithAt(s, i, w) ==
    /\ i >= 1
    /\ i + Len(w) - 1 <= Len(s)
    /\ \A k \in DOMAIN w : Lower(s[i + k - 1]) = w[k]

\* the length of the run of blanks of s that starts at position from
RECURSIVE BlankRun(_, _)
BlankRun(s, from) ==
    IF from <= Len(s) /\ s[from] = " " THEN 1 + BlankRun(s, from + 1) ELSE 0

AgoUnits == {<<"h", "o", "u", "r">>, <<"h", "o", "u", "r", "s">>,
             <<"d", "a", "y">>, <<"d", "a", "y", "s">>,
             <<"m", "i", "n", "u", "t", "e">>, <<"m", "i", "n", "u", "t", "e", "s">>}

\* whether \d+\s*(hours?|days?|minutes?)\s*ago$ matches s from position i
MatchesAgoAt(s, i) ==
    LET d == DigitRun(s, i)
        j == i + d + BlankRun(s, i + d)
    IN  /\ d >= 1
        /\ \E u \in AgoUnits :
              /\ StartsWithAt(s, j, u)
              /\ LET k == j + Len(u) + BlankRun(s, j + Len(u))
                 IN  StartsWithAt(s, k, <<"a", "g", "o">>) /\ k + 2 = Len(s)

\* re.sub(r'\d+\s*(hours?|days?|minutes?)\s*ago$', '', s, flags=re.IGNORECASE).strip()
StripAgo(s) ==
    LET starts == {i \in DOMAIN s : MatchesAgoAt(s, i)}
    IN  IF starts = {} THEN Strip(s, " ")
        ELSE Strip(SubSeq(s, 1, (CHOOSE i \in starts : \A k \in starts : i <= k) - 1), " ")

\* re.sub(r'\s*<phrase>.*', '', s, flags=re.IGNORECASE): s is cut where the
\* blanks before the first occurrence of the phrase begin
CutFrom(s, phrase) ==
    LET starts == {i \in DOMAIN s : StartsWithAt(s, i, phrase)}
    IN  IF starts = {} THEN s
        ELSE RStrip(SubSeq(s, 1, (CHOOSE i \in starts : \A k \in starts : i <= k) - 1), " ")

SnowReport == <<"s", "n", "o", "w", " ", "r", "e", "p", "o", "r", "t">>
SkiResort == <<"s", "k", "i", " ", "r", "e", "s", "o", "r", "t">>

\* lines 348-350: the name of a detail page from the text of its h1
CleanTitle(title) == CutFrom(CutFrom(title, SnowReport), SkiResort)

\* re.search(r'(\d+)"', s): the first run of digits that a quote mark follows
QuotedNumber(s) ==
    LET starts == {i \in DOMAIN s :
                      /\ DigitRun(s, i) >= 1
                      /\ i + DigitRun(s, i) <= Len(s)
                      /\ s[i + DigitRun(s, i)] = "\""}
    IN  IF starts = {} THEN NULL
        ELSE LET i == CHOOSE i \in starts : \A k \in starts : i <= k
             IN  ToInt(SubSeq(s, i, i + DigitRun(s, i) - 1))

\* re.search(r'^(\d+)(?:-\d+)?"', s): the leading number of "19"" or "16-30""
LeadingQuotedNumber(s) ==
    LET d == DigitRun(s, 1)
        e == DigitRun(s, d + 2)
    IN  IF d >= 1 /\ d + 1 <= Len(s) /\ s[d + 1] = "\""
        THEN ToInt(SubSeq(s, 1, d))
        ELSE IF /\ d >= 1 /\ d + 1 <= Len(s) /\ s[d + 1] = "-"
                /\ e >= 1 /\ d + 2 + e <= Len(s) /\ s[d + 2 + e] = "\""
        THEN ToInt(SubSeq(s, 1, d))
        ELSE NULL

BASE_URL == "https://www.onthesnow.com"

\* a URL or an href, as its origin ("" in a relative one) and its path
Url(origin, path) == [origin |-> origin, path |-> path]

\* the empty string in the place of a URL
EmptyUrl == Url("", "")

\* urljoin(base, href) for an href that is absolute or begins with "/"
urljoin(base, href) ==
    Url(IF href.origin = "" THEN base ELSE href.origin, href.path)

\* the entries of RESORT_COORDS for the slugs of the model, in 1/10000 degree
RESORT_COORDS ==
    [slug \in {<<"v", "a", "i", "l">>, <<"a", "l", "t", "a">>} |->
        IF slug = <<"v", "a", "i", "l">> THEN <<396403, -1063742>>
        ELSE <<405884, -1116386>>]

\* (None, None): no coordinates, or no pair of counts
NoCoords == <<NULL, NULL>>

\* RESORT_COORDS.get(slug, (None, None))
CoordsGet(slug) ==
    IF slug \in DOMAIN RESORT_COORDS THEN RESORT_COORDS[slug] ELSE NoCoords

\* bool(n and n > 0)
Positive(n) == Truthy(n) /\ n > 0

-----------------------------------------------------------------------------
(* What one row or one detail page gives: nothing, an exception, or a call *)
(* of Resort.objects.update_or_create                                      *)

Skipped == [kind |-> "skip"]
RowRaised == [kind |-> "raise"]
Upsert(slug, defaults) == [kind |-> "upsert", slug |-> slug, defaults |-> defaults]

\* a row of the table layout: the number of its td cells, whether cell 0 holds
\* a link, the link's text and href, and the texts of cells 1, 3, 4 and 5
TableRow(cells, has_link, name_text, href, new_snow_text, base_text, trails_text, lifts_text) ==
    [cells |-> cells, has_link |-> has_link, name_text |-> name_text, href |-> href,
     new_snow_text |-> new_snow_text, base_text |-> base_text,
     trails_text |-> trails_text, lifts_text |-> lifts_text]

parse_table_row(row, state_name, trails_tie, lifts_tie) ==
    IF row.cells < 5 THEN Skipped
    ELSE IF ~row.has_link THEN Skipped
    ELSE LET name == StripAgo(row.name_text)
             slug == Slugify(name)
             coords == CoordsGet(slug)
             trails == parse_trails_lifts_text(row.trails_text, trails_tie)
             lifts == parse_trails_lifts_text(
                          IF row.cells > 5 THEN row.lifts_text ELSE <<>>, lifts_tie)
         IN  IF trails.kind = "raise" \/ lifts.kind = "raise" THEN RowRaised
             ELSE Upsert(slug,
                    [name |-> name,
                     state |-> state_name,
                     latitude |-> coords[1],
                     longitude |-> coords[2],
                     base_depth |-> LeadingQuotedNumber(row.base_text),
                     new_snow_24h |-> QuotedNumber(row.new_snow_text),
                     trails_open |-> trails.open,
                     trails_total |-> trails.total,
                     lifts_open |-> lifts.open,
                     lifts_total |-> lifts.total,
                     is_open |-> Positive(trails.open) \/ Positive(lifts.open),
                     url |-> IF row.href /= EmptyUrl THEN urljoin(BASE_URL, row.href)
                             ELSE EmptyUrl])

\* a row of the div layout, given by what the searches of lines 535-565 find
\* in it: the name element, its text and href, the numbers near the keywords,
\* and the two N/M pairs (NoCoords where the pattern is not found)
CardRow(has_name_elem, name, href, base_depth, new_snow, trails, lifts) ==
    [has_name_elem |-> has_name_elem, name |-> name, href |-> href,
     base_depth |-> base_depth, new_snow |-> new_snow, trails |-> trails,
     lifts |-> lifts]

parse_resort_row(row, state_name) ==
    IF ~row.has_name_elem THEN Skipped
    ELSE LET slug == Slugify(row.name)
             coords == CoordsGet(slug)
         IN  Upsert(slug,
                [name |-> row.name,
                 state |-> state_name,
                 latitude |-> coords[1],
                 longitude |-> coords[2],
                 base_depth |-> row.base_depth,
                 new_snow_24h |-> row.new_snow,
                 trails_open |-> row.trails[1],
                 trails_total |-> row.trails[2],
                 lifts_open |-> row.lifts[1],
                 lifts_total |-> row.lifts[2],
                 is_open |-> Positive(row.trails[1]) \/ Positive(row.lifts[1]),
                 url |-> IF row.href /= EmptyUrl THEN urljoin(BASE_URL, row.href)
                         ELSE EmptyUrl])

\* what a pattern of extract_coordinates_from_page finds in a script: nothing,
\* two texts that float() accepts, or texts of [-\d.]+ that it rejects
NoMatch == [found |-> FALSE, valid |-> FALSE, value |-> NoCoords]
BadMatch == [found |-> TRUE, valid |-> FALSE, value |-> NoCoords]
CoordMatch(lat, lng) == [found |-> TRUE, valid |-> TRUE, value |-> <<lat, lng>>]

\* a script of a detail page: the latitude/longitude pair and the center array
Script(latlng, center) == [latlng |-> latlng, center |-> center]

\* lines 601-621 from script i on
RECURSIVE ScriptCoords(_, _)
ScriptCoords(scripts, i) ==
    IF i > Len(scripts) THEN NoCoords
    ELSE IF scripts[i].latlng.found /\ scripts[i].latlng.valid
         THEN scripts[i].latlng.value
    ELSE IF scripts[i].center.found /\ scripts[i].center.valid
         THEN scripts[i].center.value
    ELSE ScriptCoords(scripts, i + 1)

extract_coordinates_from_page(scripts, slug) ==
    IF slug \in DOMAIN RESORT_COORDS THEN RESORT_COORDS[slug]
    ELSE ScriptCoords(scripts, 1)

\* is_open taken from the totals instead of the open counts
extract_conditions_by_totals(base_match, new_match, trails_match, lifts_match) ==
    [base_depth |-> base_match,
     summit_depth |-> NULL,
     new_snow_24h |-> new_match,
     new_snow_48h |-> NULL,
     trails_open |-> trails_match[1],
     trails_total |-> trails_match[2],
     lifts_open |-> lifts_match[1],
     lifts_total |-> lifts_match[2],
     is_open |-> Truthy(trails_match[2]) \/ Truthy(lifts_match[2])]

\* extract_conditions, on what its four searches find in the page's text
extract_conditions(base_match, new_match, trails_match, lifts_match) ==
    [base_depth |-> base_match,
     summit_depth |-> NULL,
     new_snow_24h |-> new_match,
     new_snow_48h |-> NULL,
     trails_open |-> trails_match[1],
     trails_total |-> trails_match[2],
     lifts_open |-> lifts_match[1],
     lifts_total |-> lifts_match[2],
     is_open |-> Truthy(trails_match[1]) \/ Truthy(lifts_match[1])]

\* a detail page: how its fetch ended, its h1 (if any), its scripts, and what
\* the searches of extract_conditions find in its text
DetailPage(status, has_h1, title, scripts, base_match, new_match, trails_match, lifts_match) ==
    [status |-> status, has_h1 |-> has_h1, title |-> title, scripts |-> scripts,
     base_match |-> base_match, new_match |-> new_match,
     trails_match |-> trails_match, lifts_match |-> lifts_match]

scrape_individual_resort(resort_url, state_name, detail) ==
    IF detail.status /= "ok" THEN Skipped
    ELSE IF ~detail.has_h1 THEN Skipped
    ELSE LET name == CleanTitle(detail.title)
             slug == Slugify(name)
             coords == extract_coordinates_from_page(detail.scripts, slug)
             conditions == extract_conditions(detail.base_match, detail.new_match,
                                              detail.trails_match, detail.lifts_match)
         IN  Upsert(slug,
                [name |-> name,
                 state |-> state_name,
                 latitude |-> coords[1],
                 longitude |-> coords[2],
                 url |-> urljoin(BASE_URL, resort_url),
                 base_depth |-> conditions.base_depth,
                 summit_depth |-> conditions.summit_depth,
                 new_snow_24h |-> conditions.new_snow_24h,
                 new_snow_48h |-> conditions.new_snow_48h,
                 trails_open |-> conditions.trails_open,
                 trails_total |-> conditions.trails_total,
                 lifts_open |-> conditions.lifts_open,
                 lifts_total |-> conditions.lifts_total,
                 is_open |-> conditions.is_open])

-----------------------------------------------------------------------------
(* The store: the rows of the model Resort (resorts/models.py) *)

\* the fields a scrape can write, with the value a new row has without them
FieldDefaults ==
    [name |-> <<>>, state |-> "", latitude |-> NULL, longitude |-> NULL,
     base_depth |-> NULL, summit_depth |-> NULL, new_snow_24h |-> NULL,
     new_snow_48h |-> NULL, trails_open |-> NULL, trails_total |-> NULL,
     lifts_open |-> NULL, lifts_total |-> NULL, is_open |-> FALSE, url |-> EmptyUrl]

RowFields == DOMAIN FieldDefaults \cup {"pk", "slug", "last_scraped", "created_at"}

\* Resort.objects.create(slug=slug, **defaults) at time now
CreatedRow(pk, slug, defaults, now) ==
    [f \in RowFields |->
        IF f = "pk" THEN pk
        ELSE IF f = "slug" THEN slug
        ELSE IF f \in {"last_scraped", "created_at"} THEN now
        ELSE IF f \in DOMAIN defaults THEN defaults[f]
        ELSE FieldDefaults[f]]

\* setattr for every default, then save() at time now (auto_now)
UpdatedRow(row, defaults, now) ==
    [f \in RowFields |->
        IF f = "last_scraped" THEN now
        ELSE IF f \in DOMAIN defaults THEN defaults[f]
        ELSE row[f]]

\* a store that inserts a row at every call
create_always(objects, slug, defaults, now) ==
    objects \cup {CreatedRow(Cardinality(objects) + 1, slug, defaults, now)}

\* Resort.objects.update_or_create(slug=slug, defaults=defaults): the rows
\* after the call. With several rows of the slug get() raises
\* MultipleObjectsReturned, nothing is written, and the caller logs it.
update_or_create(objects, slug, defaults, now) ==
    LET found == {r \in objects : r.slug = slug}
    IN  IF found = {}
        THEN objects \cup {CreatedRow(Cardinality(objects) + 1, slug, defaults, now)}
        ELSE IF Cardinality(found) = 1
        THEN {IF r \in found THEN UpdatedRow(r, defaults, now) ELSE r : r \in objects}
        ELSE objects

-----------------------------------------------------------------------------
(* scrape_all_resorts: the state pages one after the other *)

\* get_us_states(): the names, in the order of the list
get_us_states ==
    <<"Colorado", "California", "Utah", "Vermont", "Montana", "Wyoming",
      "New Mexico", "Idaho", "Oregon", "Washington", "New Hampshire", "Maine",
      "New York", "Michigan", "Wisconsin", "Minnesota", "Pennsylvania",
      "West Virginia", "Virginia", "North Carolina", "Massachusetts",
      "Connecticut", "Nevada", "Arizona", "Alaska", "South Dakota">>

\* the states of the list that are scraped, and the rows or links of a page
MaxStates == 2
MaxRows == 2

\* the texts and hrefs the rows and pages of the model are made of
Sample ==
    [Vail |-> <<"V", "a", "i", "l">>,
         VailAgo |-> <<"v", "a", "i", "l", "2", " ", "h", "o", "u", "r", "s", " ", "a", "g", "o">>,
         MtX |-> <<"M", "t", ".", " ", "X">>,
         VailTitle |-> <<"V", "a", "i", "l", " ", "S", "n", "o", "w", " ", "R", "e", "p", "o", "r", "t">>,
         MtXTitle |-> <<"M", "t", ".", " ", "X", " ", "S", "k", "i", " ", "R", "e", "s", "o", "r", "t">>,
         VailHref |-> Url("", "/colorado/vail/skireport.html"),
         MtXHref |-> Url(BASE_URL, "/colorado/mt-x/skireport.html"),
         DetailHref |-> Url("", "/colorado/vail/snow-report.html"),
         Dash |-> <<"-">>,
         Inches19 |-> <<"1", "9", "\"", "V", "a", "r", "i", "a", "b", "l", "e">>,
         Inches16to30 |-> <<"1", "6", "-", "3", "0", "\"", "P", "o", "w", "d", "e", "r">>,
         Inches1 |-> <<"1", "\"", "-">>,
         NoTotal |-> <<"5", "0", "/", "1", "0", "0", "%">>,
         NineOfFive |-> <<"9", "/", "5", "-">>]

\* rows of the table layout: two of the slug vail (the second with no value
\* in any cell), one of a slug without coordinates, one with four cells, one
\* without a link, one whose trails text makes the disambiguator raise
TableRows ==
    {TableRow(6, TRUE, Sample.Vail, Sample.VailHref, Sample.Inches1, Sample.Inches19, Doc1, Doc4),
     TableRow(6, TRUE, Sample.VailAgo, EmptyUrl, Sample.Dash, Sample.Dash, Sample.Dash, Sample.Dash),
     TableRow(5, TRUE, Sample.MtX, Sample.MtXHref, Sample.Dash, Sample.Inches16to30, Doc3, Sample.NineOfFive),
     TableRow(4, TRUE, Sample.Vail, Sample.VailHref, Sample.Inches1, Sample.Inches19, Doc1, Doc4),
     TableRow(6, FALSE, Sample.Vail, EmptyUrl, Sample.Inches1, Sample.Inches19, Doc1, Doc4),
     TableRow(6, TRUE, Sample.Vail, Sample.VailHref, Sample.Inches1, Sample.Inches19, Sample.NoTotal, Doc4)}

CardRows ==
    {CardRow(TRUE, Sample.Vail, Sample.VailHref, 48, 6, <<195, 195>>, <<31, 31>>),
     CardRow(TRUE, Sample.MtX, EmptyUrl, NULL, NULL, <<30, 20>>, NoCoords),
     CardRow(FALSE, <<>>, EmptyUrl, NULL, NULL, NoCoords, NoCoords)}

DetailPages ==
    {DetailPage("ok", TRUE, Sample.VailTitle, <<>>, 48, NULL, <<195, 195>>, <<31, 31>>),
     DetailPage("ok", TRUE, Sample.VailTitle,
                <<Script(CoordMatch(390000, -1060000), NoMatch)>>,
                48, NULL, <<195, 195>>, <<31, 31>>),
     DetailPage("ok", TRUE, Sample.MtXTitle,
                <<Script(BadMatch, NoMatch), Script(NoMatch, CoordMatch(390000, -1060000))>>,
                NULL, 6, NoCoords, <<0, 9>>),
     DetailPage("ok", FALSE, <<>>, <<>>, NULL, NULL, NoCoords, NoCoords),
     DetailPage("error", FALSE, <<>>, <<>>, NULL, NULL, NoCoords, NoCoords)}

\* a link of the state page: its href and what fetching it gives
Link(href, detail) == [href |-> href, detail |-> detail]

ResortLinks == {Link(Sample.DetailHref, d) : d \in DetailPages}

\* the lists of at most MaxRows elements of S
ListsOf(S) == UNION {[1 .. n -> S] : n \in 0 .. MaxRows}

\* a state page: how its fetch ended, and what the three selectors find
Page(status, data_rows, resort_rows, resort_links) ==
    [status |-> status, data_rows |-> data_rows, resort_rows |-> resort_rows,
     resort_links |-> resort_links]

NoPage == Page("none", <<>>, <<>>, <<>>)

\* pages of the three layouts; a page of an earlier layout comes with and
\* without elements of the later ones
Pages ==
    LET vail_card == CardRow(TRUE, Sample.Vail, Sample.VailHref, 48, 6,
                             <<195, 195>>, <<31, 31>>)
        vail_link == Link(Sample.DetailHref,
                          DetailPage("ok", TRUE, Sample.VailTitle, <<>>, 48, NULL,
                                     <<195, 195>>, <<31, 31>>))
    IN  {Page("error", <<>>, <<>>, <<>>)}
            \cup {Page("ok", t, c[1], c[2]) :
                     t \in ListsOf(TableRows) \ {<<>>},
                     c \in {<<<<>>, <<>>>>, <<<<vail_card>>, <<vail_link>>>>}}
            \cup {Page("ok", <<>>, c, l) :
                     c \in ListsOf(CardRows) \ {<<>>}, l \in {<<>>, <<vail_link>>}}
            \cup {Page("ok", <<>>, <<>>, l) : l \in ListsOf(ResortLinks)}

\* the strategies in the order of scrape_state_resorts
StrategyOrder == <<"table", "cards", "links">>

StrategyOf(position) ==
    IF position \in {"table_select", "table_rows"} THEN "table"
    ELSE IF position \in {"card_select", "card_rows"} THEN "cards"
    ELSE "links"

\* what the selector of a strategy found in the page
FoundBy(p, strategy) ==
    IF strategy = "table" THEN p.data_rows
    ELSE IF strategy = "cards" THEN p.resort_rows
    ELSE p.resort_links

\* a flow in which the loop over the table rows is not followed by a return
StrategyFlowFallingThrough(position, found) ==
    IF position = "table_select" THEN (IF found THEN "table_rows" ELSE "card_select")
    ELSE IF position = "table_rows" THEN "card_select"
    ELSE IF position = "card_select" THEN (IF found THEN "card_rows" ELSE "link_select")
    ELSE IF position = "card_rows" THEN "return"
    ELSE IF position = "link_select" THEN "link_rows"
    ELSE "return"

\* lines 286-325: where scrape_state_resorts goes on from a position, after a
\* selector (found: whether it gave an element) or after a loop
StrategyFlow(position, found) ==
    IF position = "table_select" THEN (IF found THEN "table_rows" ELSE "card_select")
    ELSE IF position = "table_rows" THEN "return"
    ELSE IF position = "card_select" THEN (IF found THEN "card_rows" ELSE "link_select")
    ELSE IF position = "card_rows" THEN "return"
    ELSE IF position = "link_select" THEN "link_rows"
    ELSE "return"

\* a call of update_or_create, as kept in upserts
UpsertCall(state_no, strategy, slug, defaults) ==
    [state_no |-> state_no, strategy |-> strategy, slug |-> slug, defaults |-> defaults]

ScrapeInit ==
    /\ store = {}
    /\ upserts = <<>>
    /\ state_index = 1
    /\ scrape_pc = "fetch"
    /\ page = NoPage
    /\ row_index = 0
    /\ tried = <<>>

ScrapeIdle ==
    /\ store = {}
    /\ upserts = <<>>
    /\ state_index = 0
    /\ scrape_pc = "idle"
    /\ page = NoPage
    /\ row_index = 0
    /\ tried = <<>>

\* only the handler of scrape_all_resorts is left
CatchesOnlyState(level) == level = "state"

\* the except Exception clauses: of the loops over rows (lines 300, 313,
\* 324) and of the loop over states (line 228)
Catches(level) == level \in {"row", "state"}

\* scrape_state_resorts returns; scrape_all_resorts goes to the next state
Return ==
    /\ state_index' = state_index + 1
    /\ scrape_pc' = IF state_index + 1 > MaxStates THEN "done" ELSE "fetch"
    /\ page' = NoPage
    /\ row_index' = 0
    /\ tried' = <<>>

\* scrape_state_resorts goes on at position next
GoTo(next) ==
    IF next = "return" THEN Return
    ELSE /\ scrape_pc' = next
         /\ row_index' = IF next \in {"table_rows", "card_rows", "link_rows"} THEN 1 ELSE 0
         /\ UNCHANGED <<state_index, page, tried>>

\* the end of one iteration of a loop over rows
NextRow(rows) ==
    IF row_index < Len(rows)
    THEN /\ row_index' = row_index + 1
         /\ UNCHANGED <<state_index, scrape_pc, page, tried>>
    ELSE GoTo(StrategyFlow(scrape_pc, TRUE))

\* the effect of what a row gave on the store
Apply(outcome) ==
    IF outcome.kind = "upsert"
    THEN /\ store' = update_or_create(store, outcome.slug, outcome.defaults,
                                      Len(upserts) + 1)
         /\ upserts' = Append(upserts, UpsertCall(state_index, StrategyOf(scrape_pc),
                                                  outcome.slug, outcome.defaults))
    ELSE UNCHANGED <<store, upserts>>

\* one iteration of a loop over rows: an exception of the row goes to the
\* handler of the loop, else to the handler of scrape_all_resorts, and with
\* neither it ends the scrape
RowStep(outcome, rows) ==
    /\ Apply(outcome)
    /\ IF outcome.kind /= "raise" \/ Catches("row") THEN NextRow(rows)
       ELSE IF Catches("state") THEN Return
       ELSE /\ scrape_pc' = "raised"
            /\ UNCHANGED <<state_index, page, row_index, tried>>

\* lines 273-284: the page of the state is fetched and parsed
ScrapeFetch ==
    /\ scrape_pc = "fetch"
    /\ \E p \in Pages :
          IF p.status = "ok"
          THEN /\ page' = p
               /\ scrape_pc' = "table_select"
               /\ UNCHANGED <<state_index, row_index, tried>>
          ELSE Return
    /\ UNCHANGED <<store, upserts, parseVars, scoreVars, rankVars, combineVars, statsVars,
                   writerVars, refreshVars>>

\* lines 288-294, 305-309, 318: a selector is evaluated; a loop over no
\* element is over at once
ScrapeSelect ==
    /\ scrape_pc \in {"table_select", "card_select", "link_select"}
    /\ LET found == FoundBy(page, StrategyOf(scrape_pc))
           next == StrategyFlow(scrape_pc, found /= <<>>)
       IN  IF next \in {"table_rows", "card_rows", "link_rows"} /\ found = <<>>
           THEN GoTo(StrategyFlow(next, FALSE))
           ELSE /\ tried' = Append(tried, [strategy |-> StrategyOf(scrape_pc),
                                           found |-> Len(found)])
                /\ scrape_pc' = next
                /\ row_index' = IF next \in {"table_rows", "card_rows", "link_rows"}
                                THEN 1 ELSE 0
                /\ UNCHANGED <<state_index, page>>
    /\ UNCHANGED <<store, upserts, parseVars, scoreVars, rankVars, combineVars, statsVars,
                   writerVars, refreshVars>>

\* lines 297-301: one row of the table
ScrapeTableRow ==
    /\ scrape_pc = "table_rows"
    /\ LET row == page.data_rows[row_index]
       IN  \E trails_tie \in TieChoices(row.trails_text),
              lifts_tie \in TieChoices(row.lifts_text) :
              RowStep(parse_table_row(row, get_us_states[state_index], trails_tie,
                                      lifts_tie),
                      page.data_rows)
    /\ UNCHANGED <<parseVars, scoreVars, rankVars, combineVars, statsVars,
                   writerVars, refreshVars>>

\* lines 310-314: one row of the div layout
ScrapeCardRow ==
    /\ scrape_pc = "card_rows"
    /\ RowStep(parse_resort_row(page.resort_rows[row_index], get_us_states[state_index]),
               page.resort_rows)
    /\ UNCHANGED <<parseVars, scoreVars, rankVars, combineVars, statsVars,
                   writerVars, refreshVars>>

\* lines 319-325: one link, its detail page fetched
ScrapeLink ==
    /\ scrape_pc = "link_rows"
    /\ LET link == page.resort_links[row_index]
       IN  RowStep(scrape_individual_resort(link.href, get_us_states[state_index],
                                            link.detail),
                   page.resort_links)
    /\ UNCHANGED <<parseVars, scoreVars, rankVars, combineVars, statsVars,
                   writerVars, refreshVars>>

ScrapeNext == ScrapeFetch \/ ScrapeSelect \/ ScrapeTableRow \/ ScrapeCardRow \/ ScrapeLink

-----------------------------------------------------------------------------
(* Resort.objects.update_or_create called by two writers at once *)

NoRow == [pk |-> 0]

\* the calls the table strategy and the detail-page strategy make
UpsertCalls ==
    {c \in {parse_table_row(r, "Colorado", tt, lt) :
               r \in TableRows, tt \in [{1, 2, 3} -> {FALSE}], lt \in [{1, 2, 3} -> {FALSE}]}
              \cup {scrape_individual_resort(Sample.DetailHref, "Colorado", d) :
                       d \in DetailPages} :
        c.kind = "upsert"}

\* tables before the calls: with or without a row of another resort, and
\* with or without an older row of each slug that is written
StoresBefore ==
    LET other == CreatedRow(1, <<"a", "l", "t", "a">>, [name |-> <<"A", "l", "t", "a">>], 0)
        Older(objects, slug) ==
            update_or_create(objects, slug, [base_depth |-> 10, is_open |-> TRUE], 0)
        WithOlder(stores, slug) == stores \cup {Older(objects, slug) : objects \in stores}
    IN  WithOlder(WithOlder({{}, {other}}, <<"v", "a", "i", "l">>), <<"m", "t", "-", "x">>)

\* the first writer writes the slug vail, the second one another slug
WriterInit ==
    /\ writers \in {w \in [1 .. 2 -> UpsertCalls] :
                       w[1].slug = <<"v", "a", "i", "l">> /\ w[2].slug /= w[1].slug}
    /\ store_before \in StoresBefore
    /\ store = store_before
    /\ writer_pc = [w \in 1 .. 2 |-> "get"]
    /\ writer_obj = [w \in 1 .. 2 |-> NoRow]
    /\ upserts = <<>>
    /\ state_index = 0
    /\ scrape_pc = "idle"
    /\ page = NoPage
    /\ row_index = 0
    /\ tried = <<>>

WriterIdle ==
    /\ writers = <<>>
    /\ writer_pc = <<>>
    /\ writer_obj = <<>>
    /\ store_before = {}

\* what the writers leave alone
writerFrame == <<upserts, state_index, scrape_pc, page, row_index, tried, parseVars,
                 scoreVars, rankVars, combineVars, statsVars, refreshVars>>

\* an UPDATE that names no row
save_without_where(objects, obj, slug, defaults, now) ==
    IF obj = NoRow
    THEN objects \cup {CreatedRow(Cardinality(objects) + 1, slug, defaults, now)}
    ELSE {UpdatedRow(r, defaults, now) : r \in objects}

\* the write of update_or_create: create() when the lookup found no row,
\* else setattr on the object found and save(), which updates the row of
\* its primary key
save(objects, obj, slug, defaults, now) ==
    IF obj = NoRow
    THEN objects \cup {CreatedRow(Cardinality(objects) + 1, slug, defaults, now)}
    ELSE {IF r.pk = obj.pk THEN UpdatedRow(obj, defaults, now) ELSE r : r \in objects}

\* update_or_create, first step: select_for_update().get(slug=slug)
WriterGet(w) ==
    /\ writer_pc[w] = "get"
    /\ LET found == {r \in store : r.slug = writers[w].slug}
       IN  writer_obj' = [writer_obj EXCEPT ![w] = IF found = {} THEN NoRow
                                                   ELSE CHOOSE r \in found : TRUE]
    /\ writer_pc' = [writer_pc EXCEPT ![w] = "save"]
    /\ UNCHANGED <<store, writers, store_before, writerFrame>>

\* update_or_create, second step: the write; a create() that meets a row of
\* its slug raises IntegrityError and the row is looked up again
WriterSave(w) ==
    /\ writer_pc[w] = "save"
    /\ IF writer_obj[w] = NoRow /\ \E r \in store : r.slug = writers[w].slug
       THEN /\ writer_pc' = [writer_pc EXCEPT ![w] = "get"]
            /\ UNCHANGED store
       ELSE /\ store' = save(store, writer_obj[w], writers[w].slug, writers[w].defaults,
                             1 + Cardinality({v \in 1 .. 2 : writer_pc[v] = "done"}))
            /\ writer_pc' = [writer_pc EXCEPT ![w] = "done"]
    /\ UNCHANGED <<writers, writer_obj, store_before, writerFrame>>

WriterNext == \E w \in 1 .. 2 : WriterGet(w) \/ WriterSave(w)

-----------------------------------------------------------------------------
(* get_or_refresh_resorts: the cache freshness check *)

\* line 199: the default of RESORT_CACHE_TIMEOUT, in seconds
DefaultCacheTimeout == 1800
\* line 205: the count of recent rows that has to be exceeded
EnoughRecentCount == 50
MaxRefreshCalls == 2

\* line 199: getattr(settings, 'RESORT_CACHE_TIMEOUT', 1800)
cache_timeout(configured) ==
    IF configured = NULL THEN DefaultCacheTimeout ELSE configured

\* line 203: Resort.objects.filter(last_scraped__gte=cache_cutoff).count()
RecentCount(rows, cache_cutoff) ==
    Cardinality({pk \in DOMAIN rows : rows[pk] >= cache_cutoff})

\* the test with the bound included
enough_recent_data_inclusive(count) == count >= EnoughRecentCount

\* line 205: if recent_count > 50
enough_recent_data(count) == count > EnoughRecentCount

\* what one state of scrape_all_resorts does to the table: the slugs it
\* writes, each the pk of a stored row or 0 for a slug not stored, and
\* whether an exception (caught at line 228) ends the state
StateOutcomes(rows) ==
    {[writes |-> w, raised |-> r] :
        w \in UNION {[1 .. n -> {0, Len(rows)}] : n \in 0 .. MaxRows}, r \in BOOLEAN}

\* update_or_create on last_scraped (auto_now): a stored row gets the time of
\* the save, a new row is added with it; on this clock the scrape takes no
\* time, so the time of the save is the time of the call
RECURSIVE Written(_, _, _)
Written(rows, writes, now) ==
    IF writes = <<>> THEN rows
    ELSE Written(IF Head(writes) = 0 THEN Append(rows, now)
                 ELSE [rows EXCEPT ![Head(writes)] = now],
                 Tail(writes), now)

NoCall == [before |-> <<>>, fetches |-> 0, writes |-> 0, raised |-> FALSE]

\* the tables the call is made on: stale rows, then rows saved exactly at the
\* cutoff, then rows saved now, with the recent ones around the bound
RefreshInit ==
    /\ settings_timeout \in {NULL, DefaultCacheTimeout \div 2}
    /\ clock = DefaultCacheTimeout + 1
    /\ \E stale \in 0 .. 1, at_cutoff \in 0 .. 1, recent \in EnoughRecentCount - 1 .. EnoughRecentCount + 1 :
          last_scraped = [pk \in 1 .. stale + recent |->
                            IF pk <= stale THEN clock - cache_timeout(settings_timeout) - 1
                            ELSE IF pk <= stale + at_cutoff
                                 THEN clock - cache_timeout(settings_timeout)
                                 ELSE clock]
    /\ refresh_pc = "call"
    /\ refresh_calls = 0
    /\ refresh_state = 0
    /\ refresh_log = NoCall
    /\ returned = <<>>

RefreshIdle ==
    /\ settings_timeout = NULL
    /\ clock = 0
    /\ last_scraped = <<>>
    /\ refresh_pc = "idle"
    /\ refresh_calls = 0
    /\ refresh_state = 0
    /\ refresh_log = NoCall
    /\ returned = <<>>

refreshFrame == <<parseVars, scoreVars, rankVars, scrapeVars, combineVars, statsVars,
                  writerVars>>

\* lines 199-206: the count of recent rows is taken; with enough of them the
\* rows are returned, else the scrape starts
RefreshCheck ==
    /\ refresh_pc \in {"call", "returned"}
    /\ refresh_calls < MaxRefreshCalls
    /\ \E elapsed \in {0, cache_timeout(settings_timeout) + 1} :
          LET now == clock + (IF refresh_pc = "call" THEN 0 ELSE elapsed)
              cache_cutoff == now - cache_timeout(settings_timeout)
              recent_count == RecentCount(last_scraped, cache_cutoff)
          IN  /\ clock' = now
              /\ refresh_log' = [NoCall EXCEPT !.before = last_scraped]
              /\ IF enough_recent_data(recent_count)
                 THEN /\ returned' = last_scraped
                      /\ refresh_pc' = "returned"
                      /\ refresh_state' = 0
                 ELSE /\ returned' = <<>>
                      /\ refresh_pc' = "scrape"
                      /\ refresh_state' = 1
    /\ refresh_calls' = refresh_calls + 1
    /\ UNCHANGED <<settings_timeout, last_scraped, refreshFrame>>

\* lines 209-213 and 223-230: one state of the loop of scrape_all_resorts;
\* what it raises is caught at line 228 and the loop goes on
RefreshScrapeState ==
    /\ refresh_pc = "scrape"
    /\ \E outcome \in StateOutcomes(last_scraped) :
          /\ last_scraped' = Written(last_scraped, outcome.writes, clock)
          /\ refresh_log' = [refresh_log EXCEPT !.fetches = @ + 1,
                                                !.writes = @ + Len(outcome.writes),
                                                !.raised = @ \/ outcome.raised]
    /\ refresh_state' = refresh_state + 1
    /\ refresh_pc' = IF refresh_state + 1 > MaxStates THEN "return" ELSE "scrape"
    /\ UNCHANGED <<settings_timeout, clock, refresh_calls, returned, refreshFrame>>

\* line 216: return list(Resort.objects.all())
RefreshReturn ==
    /\ refresh_pc = "return"
    /\ returned' = last_scraped
    /\ refresh_pc' = "returned"
    /\ UNCHANGED <<settings_timeout, clock, last_scraped, refresh_calls, refresh_state,
                   refresh_log, refreshFrame>>

RefreshNext == RefreshCheck \/ RefreshScrapeState \/ RefreshReturn
-----------------------------------------------------------------------------
(* Specifications *)

vars == <<parseVars, scoreVars, rankVars, scrapeVars, combineVars, statsVars, writerVars, refreshVars>>

\* the disambiguator applied to one text
InitParse == ParseInit /\ ScoreIdle /\ RankIdle /\ ScrapeIdle /\ CombineIdle /\ StatsIdle /\ WriterIdle /\ RefreshIdle
SpecParse == InitParse /\ [][ParseCall]_vars

\* _snow_quality_score applied to one record
InitScore == ParseIdle /\ ScoreInit /\ RankIdle /\ ScrapeIdle /\ CombineIdle /\ StatsIdle /\ WriterIdle /\ RefreshIdle
SpecScore == InitScore /\ [][ScoreCall]_vars

\* one call of filter_resorts_by_distance
InitRank == ParseIdle /\ ScoreIdle /\ RankInit /\ ScrapeIdle /\ CombineIdle /\ StatsIdle /\ WriterIdle /\ RefreshIdle
SpecRank == InitRank /\ [][RankNext]_vars

\* one run of scrape_all_resorts on an empty store
InitScrape == ParseIdle /\ ScoreIdle /\ RankIdle /\ ScrapeInit /\ CombineIdle /\ StatsIdle /\ WriterIdle /\ RefreshIdle
SpecScrape == InitScrape /\ [][ScrapeNext]_vars

\* _calculate_2d_score applied to two triples of arguments
InitCombine == ParseIdle /\ ScoreIdle /\ RankIdle /\ ScrapeIdle /\ CombineInit /\ StatsIdle /\ WriterIdle /\ RefreshIdle
SpecCombine == InitCombine /\ [][CombineCall]_vars

\* two calls of filter_resorts_by_distance and one of get_driving_route in
\* concurrent threads of one process
InitStats == ParseIdle /\ ScoreIdle /\ RankIdle /\ ScrapeIdle /\ CombineIdle /\ StatsInit /\ WriterIdle /\ RefreshIdle
SpecStats == InitStats /\ [][StatsNext]_vars

\* two calls of update_or_create with distinct slugs in concurrent
\* transactions
InitWriters == ParseIdle /\ ScoreIdle /\ RankIdle /\ CombineIdle /\ StatsIdle /\ WriterInit /\ RefreshIdle
SpecWriters == InitWriters /\ [][WriterNext]_vars

\* calls of get_or_refresh_resorts, one after the other
InitRefresh == ParseIdle /\ ScoreIdle /\ RankIdle /\ ScrapeIdle /\ CombineIdle /\ StatsIdle /\ WriterIdle /\ RefreshInit
SpecRefresh == InitRefresh /\ [][RefreshNext]_vars
-----------------------------------------------------------------------------
(* Claims about the disambiguator *)

ParseDone == ppc = "done"

\* C1: whenever parse_trails_lifts_text returns two integers (open, total),
\* open <= total, whichever branch produced the pair.
C1_OpenNeverExceedsTotal ==
    (ParseDone /\ parsed.kind = "pair") => parsed.open <= parsed.total

\* The reading of a split that the claims about the selection rule use.
C5_Open(t) == ToInt(PercentMatch(t)[1])
C5_Total(t, k) == SplitTotal(PercentMatch(t)[2], k)
C5_Pct(t, k) == SplitPct(PercentMatch(t)[2], k)

\* a split as the claim words it: a leading total, a trailing percentage in
\* [0, 100], total >= open
C5_ClaimedValid(t, k) ==
    /\ PercentMatch(t) /= <<>>
    /\ Len(PercentMatch(t)[2]) > k
    /\ C5_Pct(t, k) \in 0 .. 100
    /\ C5_Total(t, k) >= C5_Open(t)

C5_Valid(t, k) == C5_ClaimedValid(t, k) /\ C5_Total(t, k) > 0

C5_IsValid(t, k, asClaimed) == IF asClaimed THEN C5_ClaimedValid(t, k) ELSE C5_Valid(t, k)

C5_Penalty(total) == IF total > 1000 THEN 500 ELSE IF total > 500 THEN 100 ELSE 0

\* |round(open/total*100) - percentage| + penalty; with total = 0 the quotient
\* has no value and the score is whatever: undef
C5_Score(t, k, undef) ==
    IF C5_Total(t, k) = 0 THEN undef
    ELSE Abs(PyRound(C5_Open(t) * 100, C5_Total(t, k), fpTieUp[k]) - C5_Pct(t, k))
             + C5_Penalty(C5_Total(t, k))

\* the splits with the lowest score, an equal score going to the split tried
\* first in the order 3, 2, 1
C5_Winners(t, asClaimed, undef) ==
    {k \in {1, 2, 3} :
        /\ C5_IsValid(t, k, asClaimed)
        /\ \A j \in {1, 2, 3} :
              C5_IsValid(t, j, asClaimed) =>
                 \/ C5_Score(t, k, undef) < C5_Score(t, j, undef)
                 \/ (C5_Score(t, k, undef) = C5_Score(t, j, undef) /\ k >= j)}

C5_Examples ==
    /\ text = Doc1 => parsed = Pair(9, 147)
    /\ text = Doc2 => parsed = Pair(45, 165)
    /\ text = Doc3 => parsed = Pair(144, 144)

\* C5, as claimed: when at least one split with percentage in [0, 100] and
\* total >= open exists, the result is (open, total) of the one with the lowest
\* score, ties to the split tried first. The score of a split with total = 0
\* is left open: the claim holds if some value of it gives the code's result.
C5_SelectionRuleAsClaimed ==
    (ParseDone /\ \E k \in {1, 2, 3} : C5_ClaimedValid(text, k)) =>
        /\ C5_Examples
        /\ \E undef \in 0 .. 601 :
              /\ C5_Winners(text, TRUE, undef) /= {}
              /\ \A k \in C5_Winners(text, TRUE, undef) :
                    parsed = Pair(C5_Open(text), C5_Total(text, k))

\* C5, amended: the same with a valid split also requiring total > 0.
C5_SelectionRule ==
    (ParseDone /\ \E k \in {1, 2, 3} : C5_Valid(text, k)) =>
        /\ C5_Examples
        /\ C5_Winners(text, FALSE, 0) /= {}
        /\ \A k \in C5_Winners(text, FALSE, 0) :
              parsed = Pair(C5_Open(text), C5_Total(text, k))

\* two valid splits share the lowest score and the call has returned
C5_TieResolved ==
    /\ ParseDone
    /\ \E j, k \in {1, 2, 3} :
          /\ j < k
          /\ k \in C5_Winners(text, FALSE, 0)
          /\ C5_Valid(text, j)
          /\ C5_Score(text, j, 0) = C5_Score(text, k, 0)
    /\ \E k \in {1, 2, 3} : C5_Valid(text, k) /\ C5_Penalty(C5_Total(text, k)) > 0

\* C9: when the text matches open/combined% and no split of combined into a
\* total and a 3-, 2- or 1-digit percentage is valid, the result is
\* (None, None).
C9_NoValidSplitYieldsNulls ==
    (/\ ParseDone
     /\ PercentMatch(text) /= <<>>
     /\ \A k \in {1, 2, 3} : ~C5_ClaimedValid(text, k)) => parsed = NonePair

-----------------------------------------------------------------------------
(* Claims about _snow_quality_score *)

ScoreDone == spc = "done"

\* C6: for every record the score s satisfies 0 <= s <= 100.
C6_ScoreWithinRange ==
    ScoreDone => (RatLeq(Rat(0, 1), snow_score) /\ RatLeq(snow_score, Rat(100, 1)))

\* C7: the score is exactly 0 whenever the record's is_open is false,
\* whatever its depths and counts.
C7_ClosedScoresZero ==
    (ScoreDone /\ ~rec.is_open) => RatEq(snow_score, Rat(0, 1))

\* a closed record with snow on the ground and trails counted as open
C7_ClosedWithSnow ==
    /\ ScoreDone
    /\ ~rec.is_open
    /\ rec.base_depth > 0
    /\ rec.new_snow_24h > 0
    /\ rec.trails_open > 0 /\ rec.trails_total > 0

-----------------------------------------------------------------------------
(* Claims about filter_resorts_by_distance *)

RankDone == rpc = "done"

StraightLine(resort) ==
    haversine_distance(UserLat, UserLng, resort.latitude, resort.longitude)

Returns(resort) == \E k \in DOMAIN results : results[k].resort = resort

\* C2: a candidate is returned iff its driving distance was resolved and is
\* <= max_distance, or was not resolved and its straight-line distance is
\* <= max_distance; it is returned with the driving distance and duration in
\* the first case, with the straight-line distance and no duration in the
\* second; so every returned distance is <= max_distance.
C2_KeepRule ==
    (RankDone /\ candidates /= <<>>) =>
        /\ Len(driving_results) = Len(candidates)
        /\ \A i \in DOMAIN candidates :
              LET c == candidates[i]
                  info == driving_results[i].info
              IN  /\ driving_results[i].resort = c
                  /\ Returns(c) <=>
                        \/ (info.resolved /\ info.distance_miles <= max_distance * 10)
                        \/ (~info.resolved /\ StraightLine(c) <= max_distance * 10)
                  /\ \A k \in DOMAIN results :
                        results[k].resort = c =>
                           IF info.resolved
                           THEN /\ results[k].distance = info.distance_miles
                                /\ results[k].driving_hours = info.duration_hours
                           ELSE /\ results[k].distance = StraightLine(c)
                                /\ results[k].driving_hours = NULL
        /\ \A k \in DOMAIN results :
              /\ results[k].distance <= max_distance * 10
              /\ \E i \in DOMAIN candidates : candidates[i] = results[k].resort
              /\ \A l \in DOMAIN results : results[l].resort = results[k].resort => l = k

\* one candidate kept by its driving distance, one kept by its straight-line
\* distance, one dropped for a driving distance beyond the limit although its
\* straight-line distance is within it
C2_AllThreeCases ==
    /\ RankDone
    /\ \E i, j, k \in DOMAIN driving_results :
          /\ driving_results[i].info.resolved /\ Returns(candidates[i])
          /\ driving_results[i].info.duration_hours /= NULL
          /\ ~driving_results[j].info.resolved /\ Returns(candidates[j])
          /\ driving_results[k].info.resolved /\ ~Returns(candidates[k])
          /\ StraightLine(candidates[k]) <= max_distance * 10

\* C3: whatever the HTTP call gave, the batched lookup returns normally a
\* list with one entry per destination, in destination order.
C3_BatchNeverRaises ==
    response /= NoResponse =>
        /\ rpc /= "raised"
        /\ Len(driving_results) = Len(candidates)
        /\ \A i \in DOMAIN candidates : driving_results[i].resort = candidates[i]

\* the place of a returned record in the argument resorts
InputPlace(resort) == CHOOSE p \in DOMAIN resorts : resorts[p] = resort

SameKey(a, b) ==
    IF sort_by = "distance" THEN a.distance = b.distance
    ELSE IF sort_by = "conditions" THEN RatEq(a.snow_quality, b.snow_quality)
    ELSE ~CombinedLess(a.combined_score, b.combined_score)
         /\ ~CombinedLess(b.combined_score, a.combined_score)

\* C8: the result is in non-decreasing distance for sort_by = "distance", in
\* non-increasing snow_quality for "conditions", in non-increasing
\* combined_score for every other value; equal keys keep the input order.
C8_Ordering ==
    RankDone =>
        \A i, j \in DOMAIN results :
            i < j =>
               /\ sort_by = "distance" => results[i].distance <= results[j].distance
               /\ sort_by = "conditions" =>
                     RatLeq(results[j].snow_quality, results[i].snow_quality)
               /\ sort_by \notin {"distance", "conditions"} =>
                     ~CombinedLess(results[i].combined_score, results[j].combined_score)
               /\ SameKey(results[i], results[j]) =>
                     InputPlace(results[i].resort) < InputPlace(results[j].resort)

\* a descending sort that moved a record up and left two records of equal
\* key in their input order
C8_TieInDescendingSort ==
    /\ RankDone
    /\ sort_by /= "distance"
    /\ \E i, j \in DOMAIN results :
          i < j /\ SameKey(results[i], results[j])
    /\ \E i, j \in DOMAIN results :
          i < j /\ InputPlace(results[i].resort) > InputPlace(results[j].resort)

-----------------------------------------------------------------------------
(* Claims about the scraping strategies and the store *)

RowsOfSlug(slug) == {r \in store : r.slug = slug}

\* the places in upserts of the calls for a slug
CallsFor(slug) == {k \in DOMAIN upserts : upserts[k].slug = slug}

LastCallFor(slug) == CHOOSE k \in CallsFor(slug) : \A l \in CallsFor(slug) : l <= k

WrittenFields ==
    {"name", "state", "latitude", "longitude", "base_depth", "new_snow_24h",
     "trails_open", "trails_total", "lifts_open", "lifts_total", "is_open", "url"}

\* C4: after any sequence of scrapes the store holds at most one row per
\* slug; a slug scraped once or more has exactly one row, and every field
\* the scrape writes holds the value of the last scrape of the slug, also
\* when that value is null.
C4_UpsertBySlug ==
    /\ \A r1, r2 \in store : r1.slug = r2.slug => r1 = r2
    /\ \A r \in store : CallsFor(r.slug) /= {}
    /\ \A k \in DOMAIN upserts :
          LET slug == upserts[k].slug
              last == upserts[LastCallFor(slug)].defaults
          IN  /\ Cardinality(RowsOfSlug(slug)) = 1
              /\ \A r \in RowsOfSlug(slug) :
                    /\ \A f \in WrittenFields : r[f] = last[f]
                    /\ r.last_scraped = LastCallFor(slug)

\* a slug scraped twice from table rows, the second time with no value in
\* any cell: its one row holds the nulls of the second scrape
C4_ScrapedTwice ==
    \E j, k \in DOMAIN upserts :
        /\ j < k
        /\ upserts[j].slug = upserts[k].slug
        /\ upserts[j].strategy = "table" /\ upserts[k].strategy = "table"
        /\ k = LastCallFor(upserts[k].slug)
        /\ upserts[j].defaults.base_depth /= NULL
        /\ upserts[j].defaults.trails_total /= NULL
        /\ upserts[j].defaults.url /= EmptyUrl
        /\ \E r \in store :
              /\ r.slug = upserts[k].slug
              /\ r.created_at = j
              /\ r.base_depth = NULL /\ r.new_snow_24h = NULL
              /\ r.trails_total = NULL /\ r.lifts_total = NULL
              /\ r.url = EmptyUrl /\ ~r.is_open

\* the place of a strategy in the order
PlaceOf(strategy) == CHOOSE k \in DOMAIN StrategyOrder : StrategyOrder[k] = strategy

\* the calls of update_or_create made for the page of state n
CallsOfPage(n) == {k \in DOMAIN upserts : upserts[k].state_no = n}

\* C10: on one state page the strategies are tried in the order table,
\* row-card, detail-page-link; a later one is tried only when every earlier
\* one found nothing and wrote nothing; after one that found something no
\* other is tried; all the upserts of a page come from one strategy.
C10_FallbackOrder ==
    /\ Len(tried) <= Len(StrategyOrder)
    /\ \A k \in DOMAIN tried :
          /\ tried[k].strategy = StrategyOrder[k]
          /\ \A j \in 1 .. k - 1 :
                /\ tried[j].found = 0
                /\ \A c \in CallsOfPage(state_index) :
                      upserts[c].strategy /= tried[j].strategy
          /\ tried[k].found > 0 => k = Len(tried)
    /\ scrape_pc \in {"table_rows", "card_rows", "link_rows"} =>
          /\ tried /= <<>>
          /\ tried[Len(tried)].strategy = StrategyOf(scrape_pc)
    /\ scrape_pc \in {"card_select", "link_select"} =>
          Len(tried) = PlaceOf(StrategyOf(scrape_pc)) - 1
    /\ \A a, b \in DOMAIN upserts :
          upserts[a].state_no = upserts[b].state_no =>
             upserts[a].strategy = upserts[b].strategy

\* the row-card strategy at work on a page without table rows that also
\* holds detail-page links
C10_CardsAfterEmptyTable ==
    /\ scrape_pc = "card_rows"
    /\ page.data_rows = <<>>
    /\ page.resort_links /= <<>>
    /\ Len(tried) = 2
    /\ tried[1].found = 0 /\ tried[2].found > 0
    /\ \E c \in CallsOfPage(state_index) : upserts[c].strategy = "cards"


\* ---------------------------------------------------------------------------
\* Properties of the scraper's error handling and of what it stores

RowPositions == {"table_rows", "card_rows", "link_rows"}

\* the rows of the loop the scraper is in
CurrentRows == FoundBy(page, StrategyOf(scrape_pc))

\* the current row is one whose parsing fails: too few cells, no link or a
\* count text the parser raises on (table); no name element (cards); a
\* failed fetch or no h1 (detail page of a link)
RowFails ==
    LET row == CurrentRows[row_index]
    IN  IF scrape_pc = "table_rows"
        THEN \/ row.cells < 5
             \/ ~row.has_link
             \/ parse_trails_lifts_text(row.trails_text, FALSE).kind = "raise"
             \/ row.cells > 5 /\ parse_trails_lifts_text(row.lifts_text, FALSE).kind = "raise"
        ELSE IF scrape_pc = "card_rows" THEN ~row.has_name_elem
        ELSE row.detail.status /= "ok" \/ ~row.detail.has_h1

C11_Step ==
    /\ scrape_pc \in RowPositions =>
          /\ RowFails => upserts' = upserts /\ store' = store
          /\ IF row_index < Len(CurrentRows)
             THEN /\ row_index' = row_index + 1
                  /\ scrape_pc' = scrape_pc
                  /\ state_index' = state_index
                  /\ page' = page
             ELSE /\ state_index' = state_index + 1
                  /\ scrape_pc' = IF state_index < MaxStates THEN "fetch" ELSE "done"
    /\ scrape_pc = "fetch" /\ scrape_pc' /= "table_select" =>
          /\ upserts' = upserts /\ store' = store
          /\ state_index' = state_index + 1
          /\ scrape_pc' = IF state_index < MaxStates THEN "fetch" ELSE "done"
    /\ scrape_pc' /= "raised"
    /\ scrape_pc' = "done" => state_index' = MaxStates + 1

\* C11: a row or detail page whose parsing fails gives no upsert and the
\* loop goes on with the next row of the page; a state page whose fetch
\* fails gives no upsert and the next state is fetched; the scrape never
\* ends by an exception and ends only after the last state
C11_FailureIsLocal == [][C11_Step]_vars

\* in the second state, after upserts of the first, the first row of the
\* table raised, nothing was written for it and the second row is next
C11_RaisingRowPassed ==
    /\ scrape_pc = "table_rows"
    /\ state_index = 2
    /\ row_index = 2
    /\ parse_trails_lifts_text(page.data_rows[1].trails_text, FALSE).kind = "raise"
    /\ page.data_rows[1].cells >= 5 /\ page.data_rows[1].has_link
    /\ CallsOfPage(1) /= {}
    /\ CallsOfPage(2) = {}

\* C12: every stored record in which both counts of a kind are known has
\* trails_open <= trails_total and lifts_open <= lifts_total
C12_StoredOpenWithinTotal ==
    \A r \in store :
       /\ r.trails_open /= NULL /\ r.trails_total /= NULL => r.trails_open <= r.trails_total
       /\ r.lifts_open /= NULL /\ r.lifts_total /= NULL => r.lifts_open <= r.lifts_total

\* a count that is known and greater than zero
KnownPositive(n) == n /= NULL /\ n > 0

\* C13: every upserted record has is_open = TRUE exactly when trails_open
\* > 0 or lifts_open > 0, a count that is not known counting as not open;
\* the stored rows keep that
C13_IsOpenDerived ==
    /\ \A k \in DOMAIN upserts :
          upserts[k].defaults.is_open
              <=> (KnownPositive(upserts[k].defaults.trails_open)
                      \/ KnownPositive(upserts[k].defaults.lifts_open))
    /\ \A r \in store :
          r.is_open <=> (KnownPositive(r.trails_open) \/ KnownPositive(r.lifts_open))

\* each strategy has upserted: the links one a record with no lift open of
\* nine (not open) after a table or a card one wrote an open record
C13_OpenAndClosedWritten ==
    /\ \E k \in DOMAIN upserts :
          /\ upserts[k].strategy = "links"
          /\ upserts[k].defaults.lifts_open = 0
          /\ upserts[k].defaults.lifts_total = 9
          /\ ~upserts[k].defaults.is_open
    /\ \E k \in DOMAIN upserts :
          upserts[k].strategy \in {"table", "cards"} /\ upserts[k].defaults.is_open
    /\ \E k \in DOMAIN upserts :
          /\ upserts[k].defaults.trails_open = NULL
          /\ upserts[k].defaults.lifts_open = NULL
          /\ ~upserts[k].defaults.is_open

\* ---------------------------------------------------------------------------
\* Properties of filter_resorts_by_distance and of the scores

HasCoordinates(resort) == resort.latitude /= NULL /\ resort.longitude /= NULL

\* no record of the input has coordinates and a straight-line distance
\* within 1.5 times max_distance (so also: the input is empty, or no record
\* has coordinates)
NoneEligible ==
    \A i \in DOMAIN resorts :
       \/ ~HasCoordinates(resorts[i])
       \/ 2 * StraightLine(resorts[i]) > max_distance * 30

\* the distance candidate i is judged by: the driving distance when it was
\* resolved, the straight-line distance otherwise
ResolvedDistance(i) ==
    IF driving_results[i].info.resolved THEN driving_results[i].info.distance_miles
    ELSE StraightLine(candidates[i])

NoneWithinRange ==
    /\ candidates /= <<>>
    /\ Len(driving_results) = Len(candidates)
    /\ \A i \in DOMAIN candidates : ResolvedDistance(i) > max_distance * 10

\* C14: with an empty input, no record with coordinates or no record passing
\* the pre-filter the call returns the empty list, does not raise and sends
\* no routing request; with candidates of which none is within max_distance
\* after resolution it returns the empty list
C14_EmptyOutcomes ==
    /\ (rpc /= "start" /\ NoneEligible) =>
          /\ rpc = "done"
          /\ results = <<>>
          /\ osrm_stats.calls = 0
          /\ response = NoResponse
    /\ (rpc = "done" /\ NoneWithinRange) => results = <<>>

\* the call has returned the empty list after a lookup that resolved a
\* driving distance beyond max_distance
C14_NoneWithinRangeReturned ==
    /\ rpc = "done"
    /\ NoneWithinRange
    /\ results = <<>>
    /\ osrm_stats.calls = 1
    /\ \E i \in DOMAIN candidates : driving_results[i].info.resolved

\* C15: for either priority the combined score does not decrease when the
\* distance score grows with the quality score fixed, nor when the quality
\* score grows with the distance score fixed
C15_Monotone ==
    cpc = "done" =>
        LET a == score_args[1]
            b == score_args[2]
        IN  /\ (/\ a.priority = b.priority
                /\ a.quality_score = b.quality_score
                /\ RatLeq(a.distance_score, b.distance_score))
                   => ~CombinedLess(combined_scores[2], combined_scores[1])
            /\ (/\ a.priority = b.priority
                /\ a.distance_score = b.distance_score
                /\ RatLeq(a.quality_score, b.quality_score))
                   => ~CombinedLess(combined_scores[2], combined_scores[1])

\* two calls with priority distance and the same quality score, the second
\* with the greater distance score and the greater result
C15_GreaterDistanceScore ==
    /\ cpc = "done"
    /\ score_args[1].priority = "distance" /\ score_args[2].priority = "distance"
    /\ score_args[1].quality_score = score_args[2].quality_score
    /\ RatLess(score_args[1].distance_score, score_args[2].distance_score)
    /\ CombinedLess(combined_scores[1], combined_scores[2])

\* 0 <= x <= 1 for a rational with a positive denominator
InUnitRange(x) == 0 <= x.n /\ x.n <= x.d

\* C16: the distance_score, quality_score and combined_score of every
\* returned entry lie in [0, 1]
C16_ScoresInUnitRange ==
    RankDone =>
        \A k \in DOMAIN results :
           /\ InUnitRange(results[k].distance_score)
           /\ InUnitRange(results[k].quality_score)
           /\ ~BigLess(BigProduct(results[k].combined_score.den),
                       BigProduct(results[k].combined_score.num))

\* ---------------------------------------------------------------------------
\* Properties of parse_trails_lifts_text (continued)

AllDigits(s) == \A i \in DOMAIN s : s[i] \in Digits

\* text is a digits, "/", b digits, and then ends or goes on with a
\* character that is neither a digit nor "%"
BareShape(a, b) ==
    /\ a >= 1 /\ b >= 1 /\ Len(text) >= a + 1 + b
    /\ AllDigits(SubSeq(text, 1, a))
    /\ text[a + 1] = "/"
    /\ AllDigits(SubSeq(text, a + 2, a + 1 + b))
    /\ Len(text) > a + 1 + b => text[a + b + 2] \notin Digits \cup {"%"}

\* C17: a text that starts with digits/digits not followed by "%" gives
\* those two integers as (open, total); "5/9-" gives (5, 9)
C17_BareFallback ==
    ParseDone =>
        /\ \A a, b \in 1 .. Len(text) :
               BareShape(a, b) =>
                  parsed = Pair(ToInt(SubSeq(text, 1, a)),
                                ToInt(SubSeq(text, a + 2, a + 1 + b)))
        /\ text = Doc4 => parsed = Pair(5, 9)

\* "5/9-" has been parsed to (5, 9)
C17_FiveOfNine ==
    /\ ParseDone
    /\ text = Doc4
    /\ BareShape(1, 1)
    /\ parsed = Pair(5, 9)

\* ---------------------------------------------------------------------------
\* Properties of the batched lookup

\* the record has coordinates and lies within 1.5 times max_distance of the
\* user in a straight line
Eligible(resort) ==
    /\ HasCoordinates(resort)
    /\ 2 * StraightLine(resort) <= max_distance * 30

\* C18: the lookup is made for exactly the records of the input that have
\* coordinates and a straight-line distance <= 1.5 * max_distance, in the
\* order of the input; no other record is looked up or returned
C18_LookupForEligible ==
    rpc /= "start" =>
        /\ candidates = SelectSeq(resorts, Eligible)
        /\ \A i \in DOMAIN driving_results : Eligible(driving_results[i].resort)
        /\ \A k \in DOMAIN results : Eligible(results[k].resort)

\* C19: one call sends at most one routing request: none when no candidate
\* passes the pre-filter, exactly one (the batched one) otherwise, also when
\* that request fails and the straight-line distances are used
C19_OneRequest ==
    /\ osrm_stats.calls <= 1
    /\ osrm_stats.calls = 1 <=> response /= NoResponse
    /\ rpc \in {"resolve", "raised", "done"} =>
          (osrm_stats.calls = 1 <=> candidates /= <<>>)

\* the call has returned two candidates by their straight-line distances
\* after its one request failed in the transport
C19_FailedBatchOneRequest ==
    /\ rpc = "done"
    /\ Len(candidates) >= 2
    /\ response.status \in {"connection_error", "timeout", "http_error"}
    /\ osrm_stats.calls = 1
    /\ Len(results) >= 2
    /\ \A k \in DOMAIN results : results[k].driving_hours = NULL

\* the response is a JSON object whose code is Ok and whose distances hold a
\* first row of numbers and nulls
PartialBatch ==
    /\ response.status = "json"
    /\ response.shape = "object"
    /\ response.code = "Ok"
    /\ response.distances.shape = "rows"
    /\ \A j \in DOMAIN response.distances.row :
          response.distances.row[j].t \in {"num", "null"}

\* C20: with code Ok a destination whose distance entry is null or absent
\* is unavailable and every destination with a distance entry is resolved
\* with that distance, whatever the response holds for the others and for
\* its duration; with another code every destination is unavailable
C20_PerDestination ==
    rpc \in {"resolve", "raised", "done"} =>
        /\ (response.status = "json" /\ response.shape = "object"
                /\ response.code /= "Ok") =>
               /\ rpc /= "raised"
               /\ Len(driving_results) = Len(candidates)
               /\ \A i \in DOMAIN candidates : ~driving_results[i].info.resolved
        /\ PartialBatch =>
               /\ rpc /= "raised"
               /\ Len(driving_results) = Len(candidates)
               /\ \A i \in DOMAIN candidates :
                     LET row == response.distances.row
                     IN  IF i + 1 > Len(row) \/ row[i + 1].t = "null"
                         THEN ~driving_results[i].info.resolved
                         ELSE /\ driving_results[i].info.resolved
                              /\ driving_results[i].info.distance_miles
                                    = MilesTenths(row[i + 1].v)

\* ---------------------------------------------------------------------------
\* Properties of the scores of filter_resorts_by_distance (continued)

\* entry k of results is at the least (greatest) distance of all entries
Closest(k) == \A j \in DOMAIN results : results[k].distance <= results[j].distance
Farthest(k) == \A j \in DOMAIN results : results[j].distance <= results[k].distance

\* C21: in a non-empty result every entry has distance_score = 1 - distance
\* / (the largest distance of the result), the closest entry has
\* distance_score 1 and the farthest has distance_score 0
C21_RelativeNormalisation ==
    RankDone =>
        \A k \in DOMAIN results :
           /\ \A f \in DOMAIN results :
                 (Farthest(f) /\ results[f].distance > 0) =>
                    RatEq(results[k].distance_score,
                          Rat(results[f].distance - results[k].distance,
                              results[f].distance))
           /\ Closest(k) => RatEq(results[k].distance_score, Rat(1, 1))
           /\ Farthest(k) => RatEq(results[k].distance_score, Rat(0, 1))

\* two scores are equal
CombinedEq(x, y) == ~CombinedLess(x, y) /\ ~CombinedLess(y, x)

\* (q + 0.01) ** (qw / 5) * (d + 0.01) ** (dw / 5), as its fifth power
Weighted(args, dw, qw) ==
    [num |-> Repeat(PlusEps(args.quality_score).n, qw)
                \o Repeat(PlusEps(args.distance_score).n, dw),
     den |-> Repeat(PlusEps(args.quality_score).d, qw)
                \o Repeat(PlusEps(args.distance_score).d, dw)]

\* C22: priority "distance" weighs the distance term 0.6 and the quality
\* term 0.4, every other priority the quality term 0.6 and the distance term
\* 0.4; the weights sum to 1 and the score of (0, 0) is the same for every
\* priority
C22_WeightSplit ==
    cpc = "done" =>
        /\ \A i \in 1 .. 2 :
               CombinedEq(combined_scores[i],
                          IF score_args[i].priority = "distance"
                          THEN Weighted(score_args[i], 3, 2)
                          ELSE Weighted(score_args[i], 2, 3))
        /\ (/\ score_args[1].distance_score.n = 0 /\ score_args[1].quality_score.n = 0
            /\ score_args[2].distance_score.n = 0 /\ score_args[2].quality_score.n = 0)
               => CombinedEq(combined_scores[1], combined_scores[2])

\* the score of distance 0 and quality 1 was computed for an unrecognised
\* priority and for "distance", and the first one is the greater
C22_UnrecognisedIsSnow ==
    /\ cpc = "done"
    /\ score_args[1].priority = "rating" /\ score_args[2].priority = "distance"
    /\ \A i \in 1 .. 2 :
          /\ score_args[i].distance_score.n = 0
          /\ score_args[i].quality_score.n = score_args[i].quality_score.d
    /\ CombinedEq(combined_scores[1], Weighted(score_args[1], 2, 3))
    /\ CombinedLess(combined_scores[2], combined_scores[1])

\* ---------------------------------------------------------------------------
\* Properties of _snow_quality_score (continued)

\* twice min(base_depth / 2, 30) + min(new_snow_24h * 2.5, 35), a null
\* value giving 0
DepthHalfPoints ==
    (IF rec.base_depth = NULL THEN 0 ELSE Min(rec.base_depth, 60))
        + (IF rec.new_snow_24h = NULL THEN 0 ELSE Min(rec.new_snow_24h * 5, 70))

\* (open / total) * points, 0 when the total is null or zero
RatioPoints(open, total, points) ==
    IF total = NULL \/ total = 0 \/ open = NULL THEN Rat(0, 1)
    ELSE Rat(open * points, total)

PercentShape(a, b) ==
    /\ a >= 1 /\ b >= 1 /\ Len(text) >= a + b + 2
    /\ AllDigits(SubSeq(text, 1, a))
    /\ text[a + 1] = "/"
    /\ AllDigits(SubSeq(text, a + 2, a + 1 + b))
    /\ text[a + b + 2] = "%"

\* C24: a text open/combined% whose combined ends in "100" with the digits
\* before it equal to open gives (open, open), for every open >= 0 and
\* whatever other splits are valid
C24_HundredPercent ==
    ParseDone =>
        \A a, b \in 1 .. Len(text) :
           (/\ PercentShape(a, b)
            /\ b > 3
            /\ SubSeq(text, a + b - 1, a + b + 1) = <<"1", "0", "0">>
            /\ ToInt(SubSeq(text, a + 2, a + b - 2)) = ToInt(SubSeq(text, 1, a)))
               => parsed = Pair(ToInt(SubSeq(text, 1, a)), ToInt(SubSeq(text, 1, a)))

\* ---------------------------------------------------------------------------
\* Properties of the detail-page strategy

\* the coordinates a detail page of the given slug should be stored with:
\* those of its scripts when a pattern yields them, else those of the static
\* table, else none
ScriptsThenTable(detail, slug) ==
    IF ScriptCoords(detail.scripts, 1) /= NoCoords THEN ScriptCoords(detail.scripts, 1)
    ELSE IF slug \in DOMAIN RESORT_COORDS THEN RESORT_COORDS[slug]
    ELSE NoCoords

C25_Step ==
    (scrape_pc = "link_rows" /\ Len(upserts') = Len(upserts) + 1) =>
        LET detail == page.resort_links[row_index].detail
            call == upserts'[Len(upserts')]
        IN  <<call.defaults.latitude, call.defaults.longitude>>
                = ScriptsThenTable(detail, call.slug)

\* C25: a record of the detail-page strategy is stored with the coordinates
\* found in the scripts of its page when there are any, with those of the
\* static table only when the scripts yield none, and with none only when
\* both fail
C25_ScriptsBeforeTable == [][C25_Step]_vars

\* ---------------------------------------------------------------------------
\* Properties of the routing-call statistics

\* C26: the call count a ranking call reads when it finishes is the number
\* of routing calls that call made itself (one, the batched lookup),
\* whatever a concurrent ranking call or single-route lookup does
C26_StatsRequestScoped ==
    \A t \in DOMAIN stats_seen : stats_seen[t] /= NULL => stats_seen[t] = 1

\* ---------------------------------------------------------------------------
\* Properties of concurrent calls of update_or_create

\* the slug and the fields a scrape writes, of every row of a table
WrittenRows(objects) ==
    {[f \in DOMAIN FieldDefaults \cup {"slug"} |-> r[f]] : r \in objects}

\* the table after the two calls one after the other, writer a first
OneAfterTheOther(a, b) ==
    update_or_create(update_or_create(store_before, writers[a].slug,
                                      writers[a].defaults, 1),
                     writers[b].slug, writers[b].defaults, 2)

\* C27: when two calls of update_or_create with distinct slugs have both
\* returned, whatever the order of their lookups and writes, the table
\* holds what it holds after the two calls in sequence, in either order:
\* one row per slug with the fields of its call, every other row as before
C27_DistinctSlugsCommute ==
    (writer_pc /= <<>> /\ \A w \in 1 .. 2 : writer_pc[w] = "done") =>
        /\ WrittenRows(store) = WrittenRows(OneAfterTheOther(1, 2))
        /\ WrittenRows(store) = WrittenRows(OneAfterTheOther(2, 1))
        /\ Cardinality(store) = Cardinality(OneAfterTheOther(1, 2))
        /\ \A r, q \in store : r.pk = q.pk => r = q
        /\ \A w \in 1 .. 2 :
              \E r \in store :
                 /\ r.slug = writers[w].slug
                 /\ \A f \in DOMAIN writers[w].defaults : r[f] = writers[w].defaults[f]
                 /\ \A q \in store : q.slug = r.slug => q = r
        /\ \A r \in store_before :
              (\A w \in 1 .. 2 : r.slug /= writers[w].slug) => r \in store

\* both calls have returned, the first having created its row and the
\* second having updated an older one, next to the row of a third resort
C27_CreatedAndUpdated ==
    /\ writer_pc /= <<>>
    /\ \A w \in 1 .. 2 : writer_pc[w] = "done"
    /\ writer_obj[1] = NoRow
    /\ writer_obj[2] /= NoRow
    /\ Cardinality(store) = 3
    /\ Cardinality(store_before) = 2

\* ---------------------------------------------------------------------------
\* Totality of parse_trails_lifts_text

\* C28: for every text the call returns (None, None) or two integers and
\* never raises, also for a text open/combined% whose combined has at most
\* three digits and no valid split
C28_ParserTotal ==
    ParseDone => parsed.kind \in {"pair", "none"}

\* ---------------------------------------------------------------------------
\* Coordinates with the value 0

\* C29: a record is left out for lack of coordinates only when its latitude
\* or longitude is null: a record with a coordinate 0 that lies within the
\* pre-filter bound is a candidate, and it is returned when it is within
\* max_distance in a straight line and the lookup resolved nothing
C29_ZeroIsACoordinate ==
    \A i \in DOMAIN resorts :
       (/\ HasCoordinates(resorts[i])
        /\ resorts[i].latitude = 0 \/ resorts[i].longitude = 0
        /\ Eligible(resorts[i])) =>
           /\ rpc /= "start" => \E j \in DOMAIN candidates : candidates[j] = resorts[i]
           /\ (/\ RankDone
               /\ StraightLine(resorts[i]) <= max_distance * 10
               /\ \A j \in DOMAIN driving_results : ~driving_results[j].info.resolved)
                  => Returns(resorts[i])

\* ---------------------------------------------------------------------------
\* The cache freshness check

\* the rows of the table at the call that were saved within the cache timeout
FreshAtCall ==
    RecentCount(refresh_log.before, clock - cache_timeout(settings_timeout))

ScrapeStarted == refresh_pc \in {"scrape", "return"} \/ refresh_log.fetches > 0

\* C30: a call of get_or_refresh_resorts starts a scrape exactly when at most
\* 50 rows were saved within the cache timeout; with more than 50 it fetches
\* nothing and writes nothing; in both cases, and when a state of the scrape
\* raised, it returns all the stored rows; and the table never has fewer rows
\* than at the call
C30_FreshnessCheck ==
    refresh_pc \in {"scrape", "return", "returned"} =>
       /\ ScrapeStarted <=> FreshAtCall <= 50
       /\ FreshAtCall > 50 =>
             /\ refresh_log.fetches = 0
             /\ refresh_log.writes = 0
             /\ last_scraped = refresh_log.before
       /\ refresh_pc = "returned" => returned = last_scraped
       /\ Len(last_scraped) >= Len(refresh_log.before)

\* a call made with exactly 50 recent rows has scraped, a state of the scrape
\* raised, rows were added, and the call returned
C30_FiftyRecentScraped ==
    /\ refresh_pc = "returned"
    /\ FreshAtCall = 50
    /\ refresh_log.raised
    /\ refresh_log.writes > 0
    /\ Len(returned) > Len(refresh_log.before)
====
